---- MODULE Spec2Model ----
(***************************************************************************)
(* Payment routing and retry engine of psydenst/rinha2025 (backend/src):   *)
(*   payments.ts   circuit breaker, health cache, makeRequest, POST /payments *)
(*   queue.ts      retry queue and its background worker                   *)
(*   summary.ts    settlement ledger (registerPayment) and /payments-summary *)
(* The repository also holds a second build of the queue module (the       *)
(* queue.ts text carried in stress.mjs) and an earlier build of the ledger *)
(* (unnamed/part_007, a sorted set per processor).  queueBuild and         *)
(* ledgerBuild select the build; they never change during a behaviour.     *)
(* Time is in milliseconds, amounts are in thousandths of a currency unit. *)
(***************************************************************************)
EXTENDS Integers, Sequences, FiniteSets, TLC

VARIABLES
    now,                    \* Date.now()
    stats,                  \* processor1Stats / processor2Stats, by processor
    healthCache,            \* payments.ts healthCache
    ledgerBuild,            \* "summary.ts" | "part_007"
    redis,                  \* summary.ts: hash per key payment:<correlationId>
    zset,                   \* part_007: sorted set payments:<processor>, member -> score
    queueBuild,             \* "queue.ts" | "stress.mjs"
    items,                  \* the QueuedPayment objects, by id (shared by reference)
    paymentQueue,           \* queue.ts paymentQueue: sequence of item ids
    queueProcessorRunning,  \* queue.ts queueProcessorRunning
    lastQueueActivity,      \* queue.ts lastQueueActivity
    queueStats,             \* queue.ts queueStats
    timers,                 \* pending setTimeout(processQueue, ..) fire times
    worker,                 \* the running processQueue invocation, if any
    req,                    \* the POST /payments handlers in flight, by request
    scan,                   \* the GET /payments-summary handler in flight
    callers,                \* registerPayment calls in flight from other callers
    hist                    \* observations for the properties (not program state)

vars == << now, stats, healthCache, ledgerBuild, redis, zset, queueBuild, items,
           paymentQueue, queueProcessorRunning, lastQueueActivity, queueStats,
           timers, worker, req, scan, callers, hist >>

ledgerVars  == << redis, zset >>
queueVars   == << items, paymentQueue, queueProcessorRunning, lastQueueActivity,
                 queueStats, timers, worker >>
buildVars   == << ledgerBuild, queueBuild >>
clientVars  == << scan, callers >>

----------------------------------------------------------------------------
(* Program constants *)

HEALTH_TTL == 5000
CIRCUIT_BREAKER_THRESHOLD == 20
CIRCUIT_BREAKER_TIMEOUT == 10000
MAX_RETRIES == 2
QUEUE_MAX_RETRIES == 3
QUEUE_IDLE_THRESHOLD == 30000

\* queue.ts sets QUEUE_MAX_SIZE = 5000; the model runs with a small capacity.
QUEUE_MAX_SIZE == 2

QUEUE_PROCESS_INTERVAL(b) == IF b = "queue.ts" THEN 3000 ELSE 0
QUEUE_BATCH_SIZE(b)       == IF b = "queue.ts" THEN 10 ELSE 1
QUEUE_INITIAL_DELAY(b)    == IF b = "queue.ts" THEN 2000 ELSE 0
QUEUE_MAX_DELAY(b)        == IF b = "queue.ts" THEN 60000 ELSE 0
\* QUEUE_BACKOFF_MULTIPLIER is 2 in queue.ts and 1.2 in stress.mjs: as a ratio.
QUEUE_BACKOFF_NUM(b)      == IF b = "queue.ts" THEN 2 ELSE 12
QUEUE_BACKOFF_DEN(b)      == IF b = "queue.ts" THEN 1 ELSE 10

----------------------------------------------------------------------------
(* Bounds of the model *)

Epoch       == 100000    \* Date.now() when the process starts
MaxElapsed  == 12000     \* the clock stops this long after Epoch
MaxElapsedQueue == 18000 \* the same, where only the queue runs
MaxFailures == 22        \* cap on a breaker's failure counter
NumReqs     == 2         \* POST /payments handlers
MaxItems    == 2         \* queue items ever created
MaxAttempts == 5         \* cap on an item's attempts counter
MaxElapsedBreaker == 15000  \* clock range of the breaker runs
MaxElapsedLedger == 1    \* clock range of the ledger runs
MaxCalls    == 3         \* registerPayment calls from other callers, in all
NumCallers  == 2         \* registerPayment calls from other callers

Procs   == {"default", "fallback"}
CorrIds == {"a", "b"}
\* 10.00 and 19.902: no sum of these falls halfway between two cents
Amounts == {10000, 19902}
Reqs    == 1..NumReqs
Callers == 1..NumCallers
\* what one downstream POST <processor>/payments can come to: a status with a
\* readable body, a 2xx / 4xx whose body cannot be read (resp.json() throws),
\* or no answer at all (network error, abort on REQUEST_TIMEOUT)
Outcomes == {"2xx", "4xx", "5xx", "unreadable", "error"}

Min(a, b) == IF a <= b THEN a ELSE b

----------------------------------------------------------------------------
(* Circuit breaker: payments.ts 61-103 *)

FreshStats == [failures |-> 0, lastFailure |-> 0, circuitOpen |-> FALSE]

\* isCircuitOpen: the value returned at time t
isCircuitOpen(s, t) ==
    IF ~s.circuitOpen THEN FALSE
    ELSE IF t - s.lastFailure > CIRCUIT_BREAKER_TIMEOUT THEN FALSE
    ELSE TRUE

\* isCircuitOpen: the stats it leaves behind (the self-healing reset)
isCircuitOpenStats(s, t) ==
    IF ~s.circuitOpen THEN s
    ELSE IF t - s.lastFailure > CIRCUIT_BREAKER_TIMEOUT
         THEN [s EXCEPT !.circuitOpen = FALSE, !.failures = 0]
         ELSE s

\* recordFailure opening the circuit one failure late (> for >=)
recordFailureLate(s, t) ==
    LET f == s.failures + 1
    IN  [failures    |-> f,
         lastFailure |-> t,
         circuitOpen |-> IF f > CIRCUIT_BREAKER_THRESHOLD THEN TRUE ELSE s.circuitOpen]

\* recordFailure losing the update when another failure was recorded at the
\* same instant
recordFailureOncePerInstant(s, t) ==
    IF s.lastFailure = t
    THEN s
    ELSE LET f == s.failures + 1
         IN  [failures    |-> f,
              lastFailure |-> t,
              circuitOpen |-> IF f >= CIRCUIT_BREAKER_THRESHOLD THEN TRUE ELSE s.circuitOpen]

recordFailure(s, t) ==
    LET f == s.failures + 1
    IN  [failures    |-> f,
         lastFailure |-> t,
         circuitOpen |-> IF f >= CIRCUIT_BREAKER_THRESHOLD THEN TRUE ELSE s.circuitOpen]

\* recordSucces resetting the count but leaving the circuit as it is
recordSuccesKeepsCircuit(s) == [s EXCEPT !.failures = 0]

recordSucces(s) == [s EXCEPT !.failures = 0, !.circuitOpen = FALSE]

\* no isCircuitOpen call yet
NoReport == [at |-> 0, wasOpen |-> FALSE, open |-> FALSE]

----------------------------------------------------------------------------
(* Settlement ledger: summary.ts 20-42 (hash per key), part_007 20-26 (sorted set) *)

\* A caller that passes no correlationId leaves the parameter undefined, and the
\* template `payment:${correlationId}` then reads "payment:undefined".
Undefined == "undefined"

Settlement(processor, amount, correlationId, timestamp) ==
    [processor |-> processor, amount |-> amount,
     correlationId |-> correlationId, timestamp |-> timestamp]

\* redis.exists(key)
Exists(store, key) == key \in DOMAIN store

\* redis.hset(key, {...}): all four fields are written, so the hash is replaced
Hset(store, key, rec) ==
    [k \in DOMAIN store \cup {key} |-> IF k = key THEN rec ELSE store[k]]

\* redis.zadd(set, score, member): a member already there only gets the new score
Zadd(set, score, member) ==
    [m \in DOMAIN set \cup {member} |-> IF m = member THEN score ELSE set[m]]

\* x.toString(): the decimal text of a number; parseFloat / parseInt read the
\* number back (JavaScript prints the shortest digits that read back the same)
NumToString(x) == << "str", x >>
ParseFloat(str) == str[2]
ParseInt(str) == str[2]

\* Number(x.toFixed(2)): to the nearest cent (amounts are in thousandths)
ToFixed2(x) == ((x + 5) \div 10) * 10

\* an omitted from / to of the summary query
NoBound == -1
NoResult == [default  |-> [totalRequests |-> -1, totalAmount |-> -1],
             fallback |-> [totalRequests |-> -1, totalAmount |-> -1]]

\* observation: a write to the ledger landed while a summary was being computed
Raced(s) == IF s.pc = "idle" THEN s ELSE [s EXCEPT !.raced = TRUE]

----------------------------------------------------------------------------
(* Retry queue, caller side: queue.ts 85-111, 213-216, 299, 303-310 *)

\* (originalRequestTime and requestedAt are written once and read by no
\* decision of the queue; they are left out)
NewItem(correlationId, amount) ==
    [correlationId       |-> correlationId,
     amount              |-> amount,
     attempts            |-> 0,
     lastAttempt         |-> 0,
     maxRetries          |-> QUEUE_MAX_RETRIES,
     delay               |-> QUEUE_INITIAL_DELAY(queueBuild),
     registerSuccess     |-> FALSE,
     \* observations
     settledOn           |-> "none"]     \* the processor a makeQueueRequest succeeded on

\* queuePayment throws 'Payment queue is full'
QueueIsFull == Len(paymentQueue) >= QUEUE_MAX_SIZE

\* startQueueProcessor, from a caller: sets the flag and the first timer
\* startQueueProcessor without the early return of queue.ts 214
startQueueProcessorUnguarded ==
    /\ queueProcessorRunning' = TRUE
    /\ timers' = Append(timers, now + QUEUE_PROCESS_INTERVAL(queueBuild))

startQueueProcessor ==
    IF queueProcessorRunning
    THEN UNCHANGED << queueProcessorRunning, timers >>
    ELSE /\ queueProcessorRunning' = TRUE
         /\ timers' = Append(timers, now + QUEUE_PROCESS_INTERVAL(queueBuild))

\* queuePayment counting the payment before it checks the capacity
queuePaymentCountsFirst(correlationId, amount) ==
    IF QueueIsFull
    THEN /\ queueStats' = [queueStats EXCEPT !.queued = @ + 1]
         /\ UNCHANGED << items, paymentQueue, lastQueueActivity, queueProcessorRunning,
                         timers, worker >>
    ELSE /\ items' = Append(items, NewItem(correlationId, amount))
         /\ paymentQueue' = Append(paymentQueue, Len(items) + 1)
         /\ queueStats' = [queueStats EXCEPT !.queued = @ + 1]
         /\ lastQueueActivity' = now
         /\ startQueueProcessor
         /\ UNCHANGED worker

\* queuePayment(payment): the new item's id is its index in items
queuePayment(correlationId, amount) ==
    IF QueueIsFull
    THEN UNCHANGED queueVars
    ELSE /\ items' = Append(items, NewItem(correlationId, amount))
         /\ paymentQueue' = Append(paymentQueue, Len(items) + 1)
         /\ queueStats' = [queueStats EXCEPT !.queued = @ + 1]
         /\ lastQueueActivity' = now
         /\ startQueueProcessor
         /\ UNCHANGED worker

----------------------------------------------------------------------------
(* POST /payments: payments.ts 262-335, with getHealth 105-150 and          *)
(* makeRequest 153-211.  A handler takes one step per suspension on I/O or  *)
(* on a timer; what runs between two suspensions is one step.               *)

IdleReq ==
    [pc |-> "idle", corr |-> "none", amount |-> 0, p1 |-> FALSE, p2 |-> FALSE,
     hnow |-> 0, proc |-> "none", attempt |-> 0, wakeAt |-> 0, regTs |-> 0,
     status |-> 0, outcome |-> "none", code |-> 0, error |-> "none",
     queueId |-> 0,
     \* observations
     calls |-> [default |-> 0, fallback |-> 0],   \* downstream POSTs issued
     made  |-> [default |-> "none", fallback |-> "none"], \* makeRequest results
     regs  |-> {},                                \* registerPayment(processor, ..) calls
     enq   |-> FALSE,                             \* queuePayment was called
     answered |-> [default |-> FALSE, fallback |-> FALSE], \* a 2xx/4xx came back
     recFail  |-> [default |-> 0, fallback |-> 0],         \* recordFailure calls
     wrote |-> FALSE]                             \* a ledger write reached the store

Done(rq, outcome, code, error) ==
    [rq EXCEPT !.pc = "done", !.outcome = outcome, !.code = code, !.error = error]

\* payments.ts 317-334: try { queuePayment } catch
DoEnqueue(r, rq) ==
    IF QueueIsFull
    THEN /\ queuePayment(rq.corr, rq.amount)
         /\ req' = [req EXCEPT ![r] =
                      Done([rq EXCEPT !.enq = TRUE], "Rejected", 500, "queue_full")]
    ELSE /\ Len(items) < MaxItems
         /\ queuePayment(rq.corr, rq.amount)
         /\ req' = [req EXCEPT ![r] =
                      Done([rq EXCEPT !.enq = TRUE, !.queueId = Len(items) + 1],
                           "Queued", 200, "none")]

\* makeRequest 161-171 on fallback: the breaker check and the first fetch
EnterFallback(r, rq, st) ==
    IF isCircuitOpen(st["fallback"], now)
    THEN /\ stats' = st
         /\ DoEnqueue(r, [rq EXCEPT !.made["fallback"] = "skipped"])
    ELSE /\ stats' = [st EXCEPT !["fallback"] = isCircuitOpenStats(@, now)]
         /\ req' = [req EXCEPT ![r] = [rq EXCEPT !.pc = "try", !.proc = "fallback",
                                          !.attempt = 0, !.calls["fallback"] = @ + 1]]
         /\ UNCHANGED queueVars

\* DoFallback trying fallback whatever getHealth reported for it
DoFallbackAlways(r, rq, st) == EnterFallback(r, rq, st)

\* payments.ts 302-315
DoFallback(r, rq, st) ==
    IF rq.p2
    THEN EnterFallback(r, rq, st)
    ELSE /\ stats' = st
         /\ DoEnqueue(r, rq)

\* EnterDefault without the breaker check of makeRequest 161-164
EnterDefaultUnchecked(r, rq, st) ==
    /\ stats' = [st EXCEPT !["default"] = isCircuitOpenStats(@, now)]
    /\ req' = [req EXCEPT ![r] = [rq EXCEPT !.pc = "try", !.proc = "default",
                                     !.attempt = 0, !.calls["default"] = @ + 1]]
    /\ UNCHANGED queueVars

\* makeRequest 161-171 on default
EnterDefault(r, rq, st) ==
    IF isCircuitOpen(st["default"], now)
    THEN DoFallback(r, [rq EXCEPT !.made["default"] = "skipped"], st)
    ELSE /\ stats' = [st EXCEPT !["default"] = isCircuitOpenStats(@, now)]
         /\ req' = [req EXCEPT ![r] = [rq EXCEPT !.pc = "try", !.proc = "default",
                                          !.attempt = 0, !.calls["default"] = @ + 1]]
         /\ UNCHANGED queueVars

\* Route without the overload check of payments.ts 268-284
RouteUnchecked(r, rq, st) ==
    IF rq.p1 THEN EnterDefault(r, rq, st) ELSE DoFallback(r, rq, st)

\* payments.ts 268-300: the overload check, then the default processor
Route(r, rq, st) ==
    IF ~rq.p1 /\ ~rq.p2 /\ Len(paymentQueue) >= QUEUE_MAX_SIZE
    THEN /\ req' = [req EXCEPT ![r] = Done(rq, "Rejected", 500, "overloaded")]
         /\ stats' = st
         /\ UNCHANGED queueVars
    ELSE IF rq.p1 THEN EnterDefault(r, rq, st) ELSE DoFallback(r, rq, st)

\* makeRequest returned {success: false} for processor p
AfterMake(r, rq, p, st) ==
    IF p = "default"
    THEN DoFallback(r, [rq EXCEPT !.made[p] = "failed"], st)
    ELSE /\ stats' = st
         /\ DoEnqueue(r, [rq EXCEPT !.made[p] = "failed"])

\* the status a downstream answer carries (resp.status)
StatusOf(outcome) == IF outcome = "2xx" THEN 200 ELSE IF outcome = "4xx" THEN 422 ELSE 500

\* CallRegister with the processor name fixed to 'default' at both call sites
CallRegisterDefault(rq, p, status) ==
    IF ledgerBuild = "summary.ts"
    THEN [rq EXCEPT !.pc = "reg_exists", !.made[p] = "success", !.status = status,
                    !.regs = @ \cup {"default"}]
    ELSE [rq EXCEPT !.pc = "reg_zadd", !.made[p] = "success", !.status = status,
                    !.regs = @ \cup {"default"}, !.regTs = now]

\* payments.ts 296-298 / 311-313: await registerPayment(<processor>, amount).
\* The call passes two arguments: under summary.ts the correlationId parameter
\* is undefined and the first await is redis.exists; under part_007 the
\* timestamp is taken at once and the await is redis.zadd.
CallRegister(rq, p, status) ==
    IF ledgerBuild = "summary.ts"
    THEN [rq EXCEPT !.pc = "reg_exists", !.made[p] = "success", !.status = status,
                    !.regs = @ \cup {p}]
    ELSE [rq EXCEPT !.pc = "reg_zadd", !.made[p] = "success", !.status = status,
                    !.regs = @ \cup {p}, !.regTs = now]

\* PostStart with the cache still served when exactly HEALTH_TTL has passed
PostStartInclusive(r, correlationId, amount) ==
    /\ req[r].pc = "idle"
    /\ IF r = 1 THEN TRUE ELSE req[r - 1].pc # "idle"
    /\ LET rq == [req[r] EXCEPT !.corr = correlationId, !.amount = amount]
       IN  IF now - healthCache.last <= HEALTH_TTL
           THEN Route(r, [rq EXCEPT !.p1 = healthCache.p1, !.p2 = healthCache.p2], stats)
           ELSE /\ req' = [req EXCEPT ![r] = [rq EXCEPT !.pc = "health", !.hnow = now]]
                /\ UNCHANGED << stats, queueVars >>
    /\ UNCHANGED << now, healthCache, ledgerVars, buildVars, clientVars, hist >>

\* handler entry: getHealth served from the cache (105-110), or probes sent (112-127)
PostStart(r, correlationId, amount) ==
    /\ req[r].pc = "idle"
    /\ IF r = 1 THEN TRUE ELSE req[r - 1].pc # "idle"   \* slots are taken in order
    /\ LET rq == [req[r] EXCEPT !.corr = correlationId, !.amount = amount]
       IN  IF now - healthCache.last < HEALTH_TTL
           THEN Route(r, [rq EXCEPT !.p1 = healthCache.p1, !.p2 = healthCache.p2], stats)
           ELSE /\ req' = [req EXCEPT ![r] = [rq EXCEPT !.pc = "health", !.hnow = now]]
                /\ UNCHANGED << stats, queueVars >>
    /\ UNCHANGED << now, healthCache, ledgerVars, buildVars, clientVars, hist >>

\* getHealth 124-141: both probes settled; raw1/raw2 are what they reported
\* (an error or a timeout is false).  isCircuitOpen runs only for a healthy probe.
HealthDone(r, raw1, raw2) ==
    /\ req[r].pc = "health"
    /\ LET o1 == raw1 /\ isCircuitOpen(stats["default"], now)
           o2 == raw2 /\ isCircuitOpen(stats["fallback"], now)
           st == [default  |-> IF raw1 THEN isCircuitOpenStats(stats["default"], now)
                               ELSE stats["default"],
                  fallback |-> IF raw2 THEN isCircuitOpenStats(stats["fallback"], now)
                               ELSE stats["fallback"]]
           hc == [last |-> req[r].hnow, p1 |-> raw1 /\ ~o1, p2 |-> raw2 /\ ~o2]
       IN  /\ healthCache' = hc
           /\ Route(r, [req[r] EXCEPT !.p1 = hc.p1, !.p2 = hc.p2], st)
    /\ UNCHANGED << now, ledgerVars, buildVars, clientVars, hist >>

\* makeRequest 166-208: one fetch comes back
Attempt(r, outcome) ==
    /\ req[r].pc = "try"
    /\ LET rq == req[r]
           p  == rq.proc
       IN  CASE outcome \in {"2xx", "4xx"} ->
                  /\ stats' = [stats EXCEPT ![p] = recordSucces(@)]
                  /\ req' = [req EXCEPT ![r] =
                               CallRegister([rq EXCEPT !.answered[p] = TRUE], p,
                                            StatusOf(outcome))]
                  /\ UNCHANGED queueVars
             [] outcome = "5xx" ->
                  IF rq.attempt = MAX_RETRIES
                  THEN AfterMake(r, [rq EXCEPT !.recFail[p] = @ + 1], p,
                                 [stats EXCEPT ![p] = recordFailure(@, now)])
                  ELSE /\ req' = [req EXCEPT ![r] = [rq EXCEPT !.attempt = @ + 1,
                                                               !.calls[p] = @ + 1]]
                       /\ UNCHANGED << stats, queueVars >>
             [] outcome \in {"unreadable", "error"} ->
                  \* 195-204; an unreadable body throws after recordSucces (181, 191)
                  LET st == IF outcome = "unreadable"
                            THEN [stats EXCEPT ![p] = recordSucces(@)]
                            ELSE stats
                      ra == IF outcome = "unreadable"
                            THEN [rq EXCEPT !.answered[p] = TRUE]
                            ELSE rq
                  IN  IF rq.attempt = MAX_RETRIES
                      THEN AfterMake(r, [ra EXCEPT !.recFail[p] = @ + 1], p,
                                     [st EXCEPT ![p] = recordFailure(@, now)])
                      ELSE /\ req' = [req EXCEPT ![r] =
                                        [ra EXCEPT !.pc = "wait",
                                                   !.wakeAt = now + 1000 * (rq.attempt + 1)]]
                           /\ stats' = st
                           /\ UNCHANGED queueVars
    /\ UNCHANGED << now, healthCache, ledgerVars, buildVars, clientVars, hist >>

\* makeRequest 201-203: the backoff timer fires and the next fetch is sent
WaitDone(r) ==
    /\ req[r].pc = "wait"
    /\ now >= req[r].wakeAt
    /\ req' = [req EXCEPT ![r] = [@ EXCEPT !.pc = "try", !.attempt = @ + 1,
                                           !.calls[req[r].proc] = @ + 1]]
    /\ UNCHANGED << now, stats, healthCache, ledgerVars, queueVars, buildVars, clientVars, hist >>

\* summary.ts 26-32: redis.exists comes back (ok), or the command is rejected
RegExists(r, ok) ==
    /\ req[r].pc = "reg_exists"
    /\ LET rq == req[r]
       IN  req' = [req EXCEPT ![r] =
                IF ~ok THEN Done(rq, "Error", 500, "ledger")
                ELSE IF Exists(redis, Undefined)
                     THEN Done(rq, "SettledDirect", rq.status, "none")
                     ELSE [rq EXCEPT !.pc = "reg_hset", !.regTs = now]]
    /\ UNCHANGED << now, stats, healthCache, ledgerVars, queueVars, buildVars, clientVars, hist >>

\* summary.ts 33-41: redis.hset comes back
RegHset(r, ok) ==
    /\ req[r].pc = "reg_hset"
    /\ LET rq == req[r]
       IN  IF ok
           THEN /\ redis' = Hset(redis, Undefined,
                                 Settlement(rq.proc, NumToString(rq.amount), Undefined,
                                            NumToString(rq.regTs)))
                /\ req' = [req EXCEPT ![r] =
                             Done([rq EXCEPT !.wrote = TRUE], "SettledDirect", rq.status, "none")]
           ELSE /\ req' = [req EXCEPT ![r] = Done(rq, "Error", 500, "ledger")]
                /\ UNCHANGED redis
    /\ scan' = IF ok THEN Raced(scan) ELSE scan
    /\ UNCHANGED << now, stats, healthCache, zset, queueVars, buildVars, callers, hist >>

\* part_007 24-25: redis.zadd comes back
RegZadd(r, ok) ==
    /\ req[r].pc = "reg_zadd"
    /\ LET rq == req[r]
       IN  IF ok
           THEN /\ zset' = [zset EXCEPT ![rq.proc] =
                              Zadd(@, rq.regTs, NumToString(rq.amount))]
                /\ req' = [req EXCEPT ![r] =
                             Done([rq EXCEPT !.wrote = TRUE], "SettledDirect", rq.status, "none")]
           ELSE /\ req' = [req EXCEPT ![r] = Done(rq, "Error", 500, "ledger")]
                /\ UNCHANGED zset
    /\ scan' = IF ok THEN Raced(scan) ELSE scan
    /\ UNCHANGED << now, stats, healthCache, redis, queueVars, buildVars, callers, hist >>

\* reply.send: the answer leaves and the handler's frame is gone
Reply(r) ==
    /\ req[r].pc = "done"
    /\ req' = [req EXCEPT ![r] = [IdleReq EXCEPT !.pc = "gone"]]
    /\ hist' = IF req[r].outcome = "SettledDirect"
               THEN [hist EXCEPT !.direct[req[r].proc] = Append(@, req[r].corr)]
               ELSE hist
    /\ UNCHANGED << now, stats, healthCache, ledgerVars, queueVars, buildVars, clientVars >>

----------------------------------------------------------------------------
(* Retry queue, worker side: processQueue (queue.ts 218-296, stress.mjs     *)
(* 253-331), processQueuedPayment (queue.ts 114-210, stress.mjs 177-244),   *)
(* makeQueueRequest (queue.ts 49-82, stress.mjs 113-144)                    *)

NoWorker ==
    [pc |-> "none", batch |-> << >>, idx |-> 0, remaining |-> << >>,
     processedInBatch |-> 0, tryList |-> << >>, tryIdx |-> 0,
     regProc |-> "none", regTs |-> 0]

RemoveAt(seq, i) == SubSeq(seq, 1, i - 1) \o SubSeq(seq, i + 1, Len(seq))

\* processQueuedPayment 119-124: the item is not yet due
NotDue(item, t) == t - item.lastAttempt < item.delay

\* The for loop of processQueue from index i on: items not yet due go back to
\* the front of remainingPayments (unshift); the walk stops at the first due item.
RECURSIVE NextDue(_, _, _, _, _)
NextDue(batch, i, rem, its, t) ==
    IF i > Len(batch) THEN [i |-> i, rem |-> rem]
    ELSE IF NotDue(its[batch[i]], t)
         THEN NextDue(batch, i + 1, << batch[i] >> \o rem, its, t)
         ELSE [i |-> i, rem |-> rem]

\* the delay before the next processQueue (queue.ts 291-295)
NextInterval(processedInBatch) ==
    IF processedInBatch > 0
    THEN QUEUE_PROCESS_INTERVAL(queueBuild) \div 2
    ELSE QUEUE_PROCESS_INTERVAL(queueBuild)

\* processQueue 269-295 resumed at index i: either the next due item starts
\* (126-132: attempts++, lastAttempt, the health probe is sent) or the loop ends,
\* paymentQueue is replaced by remainingPayments and the next cycle is scheduled.
Loop(w, i, rem, pib, its) ==
    LET nd == NextDue(w.batch, i, rem, its, now)
    IN  IF nd.i > Len(w.batch)
        THEN /\ paymentQueue' = nd.rem
             /\ timers' = Append(timers, now + NextInterval(pib))
             /\ worker' = NoWorker
             /\ items' = its
        ELSE /\ its[w.batch[nd.i]].attempts < MaxAttempts
             /\ items' = [its EXCEPT ![w.batch[nd.i]].attempts = @ + 1,
                                     ![w.batch[nd.i]].lastAttempt = now]
             /\ worker' = [w EXCEPT !.pc = "probe", !.idx = nd.i, !.remaining = nd.rem,
                                    !.processedInBatch = pib]
             /\ UNCHANGED << paymentQueue, timers >>

\* processQueue 271-281: processQueuedPayment returned shouldRemove for the
\* current item; kind is why it leaves the queue ("processed" or "failed")
Finish(w, its, qst, shouldRemove, kind) ==
    LET id == w.batch[w.idx]
    IN  /\ queueStats' = qst
        /\ IF shouldRemove
           THEN /\ lastQueueActivity' = now
                /\ hist' = [hist EXCEPT !.removed =
                              [k \in DOMAIN @ \cup {id} |-> IF k = id THEN kind ELSE @[k]]]
                /\ Loop(w, w.idx + 1, w.remaining, w.processedInBatch + 1, its)
           ELSE /\ UNCHANGED << lastQueueActivity, hist >>
                /\ Loop(w, w.idx + 1, << id >> \o w.remaining, w.processedInBatch, its)
        /\ UNCHANGED queueProcessorRunning

\* TimerFire with the worker stopping once exactly QUEUE_IDLE_THRESHOLD has passed
TimerFireStopsAtThreshold(i) ==
    /\ i \in DOMAIN timers
    /\ timers[i] <= now
    /\ IF worker.pc # "none"
       THEN /\ timers' = RemoveAt(timers, i)
            /\ hist' = [hist EXCEPT !.overlap = TRUE]
            /\ UNCHANGED << queueProcessorRunning, worker >>
       ELSE IF Len(paymentQueue) = 0
            THEN IF now - lastQueueActivity >= QUEUE_IDLE_THRESHOLD
                 THEN /\ queueProcessorRunning' = FALSE
                      /\ timers' = RemoveAt(timers, i)
                      /\ hist' = [hist EXCEPT !.stopped = TRUE]
                      /\ UNCHANGED worker
                 ELSE /\ timers' = Append(RemoveAt(timers, i),
                                          now + QUEUE_PROCESS_INTERVAL(queueBuild) * 2)
                      /\ UNCHANGED << queueProcessorRunning, worker, hist >>
            ELSE /\ timers' = RemoveAt(timers, i)
                 /\ worker' = [NoWorker EXCEPT !.pc = "import"]
                 /\ UNCHANGED << queueProcessorRunning, hist >>
    /\ UNCHANGED << now, stats, healthCache, ledgerVars, buildVars, req, clientVars,
                    items, paymentQueue, lastQueueActivity, queueStats >>

\* a setTimeout(processQueue, ..) fires: processQueue 218-234
TimerFire(i) ==
    /\ i \in DOMAIN timers
    /\ timers[i] <= now
    /\ IF worker.pc # "none"
       THEN /\ timers' = RemoveAt(timers, i)
            /\ hist' = [hist EXCEPT !.overlap = TRUE]
            /\ UNCHANGED << queueProcessorRunning, worker >>
       ELSE IF Len(paymentQueue) = 0
            THEN IF now - lastQueueActivity > QUEUE_IDLE_THRESHOLD
                 THEN /\ queueProcessorRunning' = FALSE
                      /\ timers' = RemoveAt(timers, i)
                      /\ hist' = [hist EXCEPT !.stopped = TRUE]
                      /\ UNCHANGED worker
                 ELSE /\ timers' = Append(RemoveAt(timers, i),
                                          now + QUEUE_PROCESS_INTERVAL(queueBuild) * 2)
                      /\ UNCHANGED << queueProcessorRunning, worker, hist >>
            ELSE /\ timers' = RemoveAt(timers, i)
                 /\ worker' = [NoWorker EXCEPT !.pc = "import"]
                 /\ UNCHANGED << queueProcessorRunning, hist >>
    /\ UNCHANGED << now, stats, healthCache, ledgerVars, buildVars, req, clientVars,
                    items, paymentQueue, lastQueueActivity, queueStats >>

\* processQueue 234, 264-269: the import resolved; the batch is sliced off
ImportDone ==
    /\ worker.pc = "import"
    /\ LET n == Min(QUEUE_BATCH_SIZE(queueBuild), Len(paymentQueue))
           w == [worker EXCEPT !.batch = SubSeq(paymentQueue, 1, n)]
       IN  Loop(w, 1, SubSeq(paymentQueue, n + 1, Len(paymentQueue)), 0, items)
    /\ UNCHANGED << now, stats, healthCache, ledgerVars, buildVars, req, clientVars, hist,
                    queueProcessorRunning, lastQueueActivity, queueStats >>

\* TrialOrder trying fallback first when no processor is reported healthy
TrialOrderFallbackFirst(p1, p2) ==
    LET healthy == (IF p1 THEN << "default" >> ELSE << >>)
                   \o (IF p2 THEN << "fallback" >> ELSE << >>)
    IN  IF Len(healthy) = 0 THEN << "fallback", "default" >> ELSE healthy

\* processQueuedPayment 132-170: the probe came back; the trial order is built
\* and the first makeQueueRequest is sent
TrialOrder(p1, p2) ==
    LET healthy == (IF p1 THEN << "default" >> ELSE << >>)
                   \o (IF p2 THEN << "fallback" >> ELSE << >>)
    IN  IF Len(healthy) = 0 THEN << "default", "fallback" >> ELSE healthy

ProbeDone(raw1, raw2) ==
    /\ worker.pc = "probe"
    /\ worker' = [worker EXCEPT !.pc = "call", !.tryList = TrialOrder(raw1, raw2),
                                !.tryIdx = 1]
    /\ UNCHANGED << now, stats, healthCache, ledgerVars, buildVars, req, clientVars, hist,
                    items, paymentQueue, queueProcessorRunning, lastQueueActivity,
                    queueStats, timers >>

\* makeQueueRequest's verdict on a downstream answer: queue.ts 67-81 takes a
\* 4xx for a success, stress.mjs 133-143 only a 2xx
QueueSuccess(outcome) ==
    IF queueBuild = "queue.ts" THEN outcome \in {"2xx", "4xx"} ELSE outcome = "2xx"

\* the key registerPayment reads for the worker's call: queue.ts 180 passes no
\* correlationId, stress.mjs 218 passes the item's
WorkerKey(item) == IF queueBuild = "queue.ts" THEN Undefined ELSE item.correlationId

\* the worker's await registerPayment(..) begins (first await of the ledger build)
WorkerRegister(w, p) ==
    IF ledgerBuild = "summary.ts"
    THEN [w EXCEPT !.pc = "reg_exists", !.regProc = p]
    ELSE [w EXCEPT !.pc = "reg_zadd", !.regProc = p, !.regTs = now]

\* Exhausted giving the item one more attempt (> for >=)
ExhaustedLate(w) ==
    LET id   == w.batch[w.idx]
        item == items[id]
    IN  IF item.attempts > item.maxRetries
        THEN Finish(w, items, [queueStats EXCEPT !.failed = @ + 1], TRUE, "failed")
        ELSE Finish(w,
                    [items EXCEPT ![id].delay =
                        Min((item.delay * QUEUE_BACKOFF_NUM(queueBuild))
                               \div QUEUE_BACKOFF_DEN(queueBuild),
                            QUEUE_MAX_DELAY(queueBuild))],
                    [queueStats EXCEPT !.retries = @ + 1], FALSE, "none")

\* Exhausted keeping the item's delay as it is (no backoff)
ExhaustedFlatDelay(w) ==
    LET id   == w.batch[w.idx]
        item == items[id]
    IN  IF item.attempts >= item.maxRetries
        THEN Finish(w, items, [queueStats EXCEPT !.failed = @ + 1], TRUE, "failed")
        ELSE Finish(w, items, [queueStats EXCEPT !.retries = @ + 1], FALSE, "none")

\* queue.ts 193-209 / stress.mjs 233-243: every processor of the trial order failed
Exhausted(w) ==
    LET id   == w.batch[w.idx]
        item == items[id]
    IN  IF item.attempts >= item.maxRetries
        THEN Finish(w, items, [queueStats EXCEPT !.failed = @ + 1], TRUE, "failed")
        ELSE Finish(w,
                    [items EXCEPT ![id].delay =
                        Min((item.delay * QUEUE_BACKOFF_NUM(queueBuild))
                               \div QUEUE_BACKOFF_DEN(queueBuild),
                            QUEUE_MAX_DELAY(queueBuild))],
                    [queueStats EXCEPT !.retries = @ + 1], FALSE, "none")

\* registerPayment returned to the worker (queue.ts 180-187, stress.mjs 218-230)
Registered(w, its) ==
    IF queueBuild = "queue.ts"
    THEN Finish(w, its, queueStats, TRUE, "processed")
    ELSE Finish(w, [its EXCEPT ![w.batch[w.idx]].registerSuccess = TRUE],
                [queueStats EXCEPT !.processed = @ + 1], TRUE, "processed")

\* registerPayment threw (queue.ts 182-187 swallows it, stress.mjs 221-225 keeps the item)
RegisterThrew(w, its) ==
    IF queueBuild = "queue.ts"
    THEN Finish(w, its, queueStats, TRUE, "processed")
    ELSE Finish(w, its, queueStats, FALSE, "none")

\* processQueuedPayment 165-191: one makeQueueRequest comes back
CallDone(outcome) ==
    /\ worker.pc = "call"
    /\ LET w    == worker
           id   == w.batch[w.idx]
           p    == w.tryList[w.tryIdx]
           its  == items
       IN  IF QueueSuccess(outcome)
           THEN LET its2 == [its EXCEPT ![id].settledOn = p]
                IN  IF queueBuild = "queue.ts"
                    THEN /\ queueStats' = [queueStats EXCEPT !.processed = @ + 1]
                         /\ worker' = WorkerRegister(w, p)
                         /\ items' = its2
                         /\ UNCHANGED << paymentQueue, queueProcessorRunning,
                                         lastQueueActivity, timers, hist >>
                    ELSE IF ~items[id].registerSuccess
                         THEN /\ worker' = WorkerRegister(w, p)
                              /\ items' = its2
                              /\ UNCHANGED << paymentQueue, queueProcessorRunning, queueStats,
                                              lastQueueActivity, timers, hist >>
                         ELSE Finish(w, its2, [queueStats EXCEPT !.processed = @ + 1],
                                     TRUE, "processed")
           ELSE IF w.tryIdx < Len(w.tryList)
                THEN /\ worker' = [w EXCEPT !.tryIdx = @ + 1]
                     /\ items' = its
                     /\ UNCHANGED << paymentQueue, queueProcessorRunning, queueStats,
                                     lastQueueActivity, timers, hist >>
                ELSE Exhausted(w)
    /\ UNCHANGED << now, stats, healthCache, ledgerVars, buildVars, req, clientVars >>

\* summary.ts 26-32 for the worker's call
WRegExists(ok) ==
    /\ worker.pc = "reg_exists"
    /\ LET w == worker
           key == WorkerKey(items[w.batch[w.idx]])
       IN  IF ~ok THEN RegisterThrew(w, items)
           ELSE IF Exists(redis, key) THEN Registered(w, items)
           ELSE /\ worker' = [w EXCEPT !.pc = "reg_hset", !.regTs = now]
                /\ UNCHANGED << items, paymentQueue, queueProcessorRunning, queueStats,
                                lastQueueActivity, timers, hist >>
    /\ UNCHANGED << now, stats, healthCache, ledgerVars, buildVars, req, clientVars >>

\* summary.ts 33-41 for the worker's call
WRegHset(ok) ==
    /\ worker.pc = "reg_hset"
    /\ LET w    == worker
           item == items[w.batch[w.idx]]
           key  == WorkerKey(item)
       IN  IF ok
           THEN /\ redis' = Hset(redis, key,
                                 Settlement(w.regProc, NumToString(item.amount), key,
                                            NumToString(w.regTs)))
                /\ Registered(w, items)
           ELSE /\ UNCHANGED redis
                /\ RegisterThrew(w, items)
    /\ scan' = IF ok THEN Raced(scan) ELSE scan
    /\ UNCHANGED << now, stats, healthCache, zset, buildVars, req, callers >>

\* part_007 24-25 for the worker's call
WRegZadd(ok) ==
    /\ worker.pc = "reg_zadd"
    /\ LET w    == worker
           item == items[w.batch[w.idx]]
       IN  IF ok
           THEN /\ zset' = [zset EXCEPT ![w.regProc] =
                              Zadd(@, w.regTs, NumToString(item.amount))]
                /\ Registered(w, items)
           ELSE /\ UNCHANGED zset
                /\ RegisterThrew(w, items)
    /\ scan' = IF ok THEN Raced(scan) ELSE scan
    /\ UNCHANGED << now, stats, healthCache, redis, buildVars, req, callers >>

\* forceProcessQueue: queue.ts 317-321
forceProcessQueue ==
    /\ startQueueProcessor
    /\ UNCHANGED << now, stats, healthCache, ledgerVars, buildVars, req, clientVars, hist,
                    items, paymentQueue, lastQueueActivity, queueStats, worker >>

\* queuePayment called directly (the exported function, any caller)
Enqueue(correlationId, amount) ==
    /\ QueueIsFull \/ Len(items) < MaxItems
    /\ queuePayment(correlationId, amount)
    /\ hist' = [hist EXCEPT !.threw = QueueIsFull]
    /\ UNCHANGED << now, stats, healthCache, ledgerVars, buildVars, req, clientVars >>

\* the clock: d milliseconds pass, up to limit after the start
Tick(d, limit) ==
    /\ now + d <= Epoch + limit
    /\ now' = now + d
    /\ UNCHANGED << stats, healthCache, ledgerVars, queueVars, buildVars, req, clientVars, hist >>

----------------------------------------------------------------------------
(* registerPayment called with all its arguments: summary.ts 20-42,         *)
(* part_007 20-26                                                           *)

NoCall == [pc |-> "idle", processor |-> "none", amount |-> 0, key |-> "none", ts |-> 0]

\* the call starts: summary.ts sends redis.exists, part_007 reads the clock and
\* sends redis.zadd
registerPayment(c, processor, amount, correlationId) ==
    /\ callers[c].pc = "idle"
    /\ \A b \in Callers : b < c => callers[b].pc # "idle"
    /\ hist.calls < MaxCalls
    /\ hist' = [hist EXCEPT !.calls = @ + 1]
    /\ callers' = [callers EXCEPT ![c] =
                     IF ledgerBuild = "summary.ts"
                     THEN [pc |-> "exists", processor |-> processor, amount |-> amount,
                           key |-> correlationId, ts |-> 0]
                     ELSE [pc |-> "zadd", processor |-> processor, amount |-> amount,
                           key |-> correlationId, ts |-> now]]
    /\ UNCHANGED << now, stats, healthCache, ledgerVars, queueVars, buildVars, req, scan >>

\* summary.ts 27-32: redis.exists comes back
CallExists(c, ok) ==
    /\ callers[c].pc = "exists"
    /\ callers' = [callers EXCEPT ![c] =
                     IF ~ok THEN NoCall
                     ELSE IF Exists(redis, @.key) THEN NoCall
                     ELSE [@ EXCEPT !.pc = "hset", !.ts = now]]
    /\ UNCHANGED << now, stats, healthCache, ledgerVars, queueVars, buildVars, req, scan, hist >>

\* summary.ts 33-41: redis.hset comes back
CallHset(c, ok) ==
    /\ callers[c].pc = "hset"
    /\ LET cl == callers[c]
       IN  redis' = IF ok
                    THEN Hset(redis, cl.key,
                              Settlement(cl.processor, NumToString(cl.amount), cl.key,
                                         NumToString(cl.ts)))
                    ELSE redis
    /\ callers' = [callers EXCEPT ![c] = NoCall]
    /\ scan' = IF ok THEN Raced(scan) ELSE scan
    /\ UNCHANGED << now, stats, healthCache, zset, queueVars, buildVars, req, hist >>

\* part_007 25: redis.zadd comes back
CallZadd(c, ok) ==
    /\ callers[c].pc = "zadd"
    /\ LET cl == callers[c]
       IN  zset' = IF ok
                   THEN [zset EXCEPT ![cl.processor] =
                           Zadd(@, cl.ts, NumToString(cl.amount))]
                   ELSE zset
    /\ callers' = [callers EXCEPT ![c] = NoCall]
    /\ scan' = IF ok THEN Raced(scan) ELSE scan
    /\ UNCHANGED << now, stats, healthCache, redis, queueVars, buildVars, req, hist >>

----------------------------------------------------------------------------
(* GET /payments-summary: summary.ts 49-108, part_007 37-65                 *)

NoScan ==
    [pc |-> "idle", from |-> NoBound, to |-> NoBound, keys |-> {}, at |-> "default",
     totalRequests |-> [default |-> 0, fallback |-> 0],
     totalAmount |-> [default |-> 0, fallback |-> 0],
     result |-> NoResult, raced |-> FALSE]

\* OutOfRange with the upper bound exclusive (>= for >)
OutOfRangeExclusive(ts, from, to) ==
    \/ (from # NoBound /\ ts < from)
    \/ (to # NoBound /\ ts >= to)

\* summary.ts 76: the record is skipped (ts < minTs || ts > maxTs, the bounds
\* being -Infinity / Infinity when absent)
OutOfRange(ts, from, to) ==
    \/ (from # NoBound /\ ts < from)
    \/ (to # NoBound /\ ts > to)

RECURSIVE SumOf(_)
\* reduce((sum, value) => sum + parseFloat(value), 0)
SumOf(members) ==
    IF members = {} THEN 0
    ELSE LET m == CHOOSE x \in members : TRUE
         IN  ParseFloat(m) + SumOf(members \ {m})

\* redis.zrangebyscore(set, min, max): the members, '-inf' / '+inf' when absent
Zrangebyscore(set, from, to) ==
    {m \in DOMAIN set : ~OutOfRange(set[m], from, to)}

\* redis.zcount(set, min, max)
Zcount(set, from, to) == Cardinality(Zrangebyscore(set, from, to))

\* SummaryReply sending the totals as they were added up
SummaryReplyUnrounded(totalRequests, totalAmount) ==
    [p \in Procs |-> [totalRequests |-> totalRequests[p],
                      totalAmount   |-> totalAmount[p]]]

\* the body that reply.send gets
SummaryReply(totalRequests, totalAmount) ==
    [p \in Procs |-> [totalRequests |-> totalRequests[p],
                      totalAmount   |-> ToFixed2(totalAmount[p])]]

\* the handler starts and sends its first command
ScanStart(from, to) ==
    /\ scan.pc = "idle"
    /\ scan' = [NoScan EXCEPT !.pc = IF ledgerBuild = "summary.ts" THEN "keys" ELSE "zcount",
                              !.from = from, !.to = to]
    /\ UNCHANGED << now, stats, healthCache, ledgerVars, queueVars, buildVars, req, callers, hist >>

\* summary.ts 72: redis.keys('payment:*') comes back
ScanKeys(ok) ==
    /\ scan.pc = "keys"
    /\ scan' = IF ~ok THEN [scan EXCEPT !.pc = "failed"]
               ELSE IF DOMAIN redis = {}
                    THEN [scan EXCEPT !.pc = "done",
                              !.result = SummaryReply(scan.totalRequests, scan.totalAmount)]
                    ELSE [scan EXCEPT !.pc = "hgetall", !.keys = DOMAIN redis]
    /\ UNCHANGED << now, stats, healthCache, ledgerVars, queueVars, buildVars, req, callers, hist >>

\* summary.ts 74-90: redis.hgetall(key) comes back for the next key; after the
\* last one the totals are rounded and sent (93-106)
ScanHgetall(key, ok) ==
    /\ scan.pc = "hgetall"
    /\ key \in scan.keys
    /\ LET data      == redis[key]
           ts        == ParseInt(data.timestamp)
           amount    == ParseFloat(data.amount)
           processor == data.processor
           skipped   == OutOfRange(ts, scan.from, scan.to)
           requests  == IF skipped THEN scan.totalRequests
                        ELSE [scan.totalRequests EXCEPT ![processor] = @ + 1]
           total     == IF skipped THEN scan.totalAmount
                        ELSE [scan.totalAmount EXCEPT ![processor] = @ + amount]
           rest      == scan.keys \ {key}
       IN  scan' = IF ~ok THEN [scan EXCEPT !.pc = "failed"]
                   ELSE IF rest = {}
                        THEN [scan EXCEPT !.pc = "done", !.keys = rest,
                                  !.totalRequests = requests, !.totalAmount = total,
                                  !.result = SummaryReply(requests, total)]
                        ELSE [scan EXCEPT !.keys = rest,
                                  !.totalRequests = requests, !.totalAmount = total]
    /\ UNCHANGED << now, stats, healthCache, ledgerVars, queueVars, buildVars, req, callers, hist >>

\* part_007 46, 51: redis.zcount comes back
ScanZcount(ok) ==
    /\ scan.pc = "zcount"
    /\ scan' = IF ~ok THEN [scan EXCEPT !.pc = "failed"]
               ELSE [scan EXCEPT !.pc = "zrangebyscore",
                         !.totalRequests[scan.at] = Zcount(zset[scan.at], scan.from, scan.to)]
    /\ UNCHANGED << now, stats, healthCache, ledgerVars, queueVars, buildVars, req, callers, hist >>

\* part_007 47-48, 52-64: redis.zrangebyscore comes back; after the fallback
\* set the reply is sent
ScanZrangebyscore(ok) ==
    /\ scan.pc = "zrangebyscore"
    /\ LET total == [scan.totalAmount EXCEPT ![scan.at] =
                        SumOf(Zrangebyscore(zset[scan.at], scan.from, scan.to))]
       IN  scan' = IF ~ok THEN [scan EXCEPT !.pc = "failed"]
                   ELSE IF scan.at = "default"
                        THEN [scan EXCEPT !.pc = "zcount", !.at = "fallback",
                                  !.totalAmount = total]
                        ELSE [scan EXCEPT !.pc = "done", !.totalAmount = total,
                                  !.result = SummaryReply(scan.totalRequests, total)]
    /\ UNCHANGED << now, stats, healthCache, ledgerVars, queueVars, buildVars, req, callers, hist >>

\* the reply (or the 500 of a failed command) leaves
ScanReply ==
    /\ scan.pc \in {"done", "failed"}
    /\ scan' = NoScan
    /\ UNCHANGED << now, stats, healthCache, ledgerVars, queueVars, buildVars, req, callers, hist >>

----------------------------------------------------------------------------
(* The whole service *)

\* observations: overlap  a processQueue started while another was running
\*               removed  why each removed item left the queue, by item id
\*               threw    the last direct queuePayment call threw
\*               direct   the correlationIds answered as settled directly, by processor
\*               reported what the last isCircuitOpen call since the last
\*                        recordFailure / recordSucces returned, by processor
\*               calls    registerPayment calls made by other callers
\*               stopped  the worker has stopped on an idle queue
NoHist == [overlap |-> FALSE, removed |-> << >>, threw |-> FALSE, stopped |-> FALSE,
           direct |-> [default |-> << >>, fallback |-> << >>],
           reported |-> [p \in Procs |-> NoReport], calls |-> 0]

Init ==
    /\ now = Epoch
    /\ stats = [p \in Procs |-> FreshStats]
    /\ healthCache = [last |-> 0, p1 |-> FALSE, p2 |-> FALSE]
    /\ ledgerBuild \in {"summary.ts", "part_007"}
    /\ redis = << >>
    /\ zset = [p \in Procs |-> << >>]
    /\ queueBuild \in {"queue.ts", "stress.mjs"}
    /\ items = << >>
    /\ paymentQueue = << >>
    /\ queueProcessorRunning = FALSE
    /\ lastQueueActivity = Epoch
    /\ queueStats = [queued |-> 0, processed |-> 0, failed |-> 0, retries |-> 0]
    /\ timers = << >>
    /\ worker = NoWorker
    /\ req = [r \in Reqs |-> IdleReq]
    /\ scan = NoScan
    /\ callers = [c \in Callers |-> NoCall]
    /\ hist = NoHist

\* the whole service: every handler, the worker and the clock
Next ==
    \/ \E r \in Reqs, c \in CorrIds, a \in Amounts : PostStart(r, c, a)
    \/ \E r \in Reqs, raw1 \in BOOLEAN, raw2 \in BOOLEAN : HealthDone(r, raw1, raw2)
    \/ \E r \in Reqs, o \in Outcomes : Attempt(r, o)
    \/ \E r \in Reqs : WaitDone(r)
    \/ \E r \in Reqs, ok \in BOOLEAN : RegExists(r, ok)
    \/ \E r \in Reqs, ok \in BOOLEAN : RegHset(r, ok)
    \/ \E r \in Reqs, ok \in BOOLEAN : RegZadd(r, ok)
    \/ \E r \in Reqs : Reply(r)
    \/ \E i \in 1..2 : TimerFire(i)
    \/ ImportDone
    \/ \E raw1 \in BOOLEAN, raw2 \in BOOLEAN : ProbeDone(raw1, raw2)
    \/ \E o \in Outcomes : CallDone(o)
    \/ \E ok \in BOOLEAN : WRegExists(ok)
    \/ \E ok \in BOOLEAN : WRegHset(ok)
    \/ \E ok \in BOOLEAN : WRegZadd(ok)
    \/ \E c \in Callers, p \in Procs, a \in Amounts, id \in CorrIds :
          registerPayment(c, p, a, id)
    \/ \E c \in Callers, ok \in BOOLEAN : CallExists(c, ok)
    \/ \E c \in Callers, ok \in BOOLEAN : CallHset(c, ok)
    \/ \E c \in Callers, ok \in BOOLEAN : CallZadd(c, ok)
    \/ \E from \in {NoBound, Epoch}, to \in {NoBound, Epoch} : ScanStart(from, to)
    \/ \E ok \in BOOLEAN : ScanKeys(ok)
    \/ \E k \in CorrIds \cup {Undefined}, ok \in BOOLEAN : ScanHgetall(k, ok)
    \/ \E ok \in BOOLEAN : ScanZcount(ok)
    \/ \E ok \in BOOLEAN : ScanZrangebyscore(ok)
    \/ ScanReply
    \/ \E d \in {1000, 4000} : Tick(d, MaxElapsed)

Spec == Init /\ [][Next]_vars

----------------------------------------------------------------------------------------------------------------------------------------
(* The synchronous path: POST /payments handlers served one after another,  *)
(* against a queue that already holds items and breakers that may be one    *)
(* failure from opening; the worker's timer is pending and does not fire.   *)

NearOpenStats == [failures |-> CIRCUIT_BREAKER_THRESHOLD - 1,
                  lastFailure |-> Epoch, circuitOpen |-> FALSE]

InitPay ==
    /\ now = Epoch
    /\ stats \in {[p \in Procs |-> FreshStats], [p \in Procs |-> NearOpenStats]}
    /\ healthCache = [last |-> 0, p1 |-> FALSE, p2 |-> FALSE]
    /\ ledgerBuild \in {"summary.ts", "part_007"}
    /\ redis = << >>
    /\ zset = [p \in Procs |-> << >>]
    /\ queueBuild = "queue.ts"
    /\ \E k \in {QUEUE_MAX_SIZE - 1, QUEUE_MAX_SIZE} :
          /\ items = [i \in 1..k |-> NewItem("a", 10000)]
          /\ paymentQueue = [i \in 1..k |-> i]
          /\ queueStats = [queued |-> k, processed |-> 0, failed |-> 0, retries |-> 0]
    /\ queueProcessorRunning = TRUE
    /\ timers = << Epoch + QUEUE_PROCESS_INTERVAL(queueBuild) >>
    /\ lastQueueActivity = Epoch
    /\ worker = NoWorker
    /\ req = [r \in Reqs |-> IdleReq]
    /\ scan = NoScan
    /\ callers = [c \in Callers |-> NoCall]
    /\ hist = NoHist

\* no other handler is in flight
Alone(r) == \A q \in Reqs \ {r} : req[q].pc \in {"idle", "gone"}

PostStartAlone(r, c, a) == Alone(r) /\ PostStart(r, c, a)

NextPay ==
    \/ \E r \in Reqs, c \in CorrIds : PostStartAlone(r, c, 10000)
    \/ \E r \in Reqs, raw1 \in BOOLEAN, raw2 \in BOOLEAN : HealthDone(r, raw1, raw2)
    \/ \E r \in Reqs, o \in Outcomes : Attempt(r, o)
    \/ \E r \in Reqs : WaitDone(r)
    \/ \E r \in Reqs, ok \in BOOLEAN : RegExists(r, ok)
    \/ \E r \in Reqs, ok \in BOOLEAN : RegHset(r, ok)
    \/ \E r \in Reqs, ok \in BOOLEAN : RegZadd(r, ok)
    \/ \E r \in Reqs : Reply(r)
    \/ Tick(6000, MaxElapsed)

SpecPay == InitPay /\ [][NextPay]_vars

----------------------------------------------------------------------------
(* The retry queue alone: queuePayment and forceProcessQueue called from    *)
(* outside, the worker, the ledger it writes to, and the clock.             *)

InitQueue ==
    /\ Init
    /\ ledgerBuild = "summary.ts"

\* the clock moves while no drain cycle is in progress and no timer is due:
\* a due timer fires before more time passes
TickBetweenCycles ==
    /\ worker.pc = "none"
    /\ \A i \in DOMAIN timers : timers[i] > now
    /\ Tick(3000, MaxElapsedQueue)

NextQueue ==
    \/ \E c \in CorrIds : Enqueue(c, 10000)
    \/ forceProcessQueue
    \/ \E i \in 1..2 : TimerFire(i)
    \/ ImportDone
    \/ \E raw1 \in BOOLEAN, raw2 \in BOOLEAN : ProbeDone(raw1, raw2)
    \/ \E o \in Outcomes : CallDone(o)
    \/ \E ok \in BOOLEAN : WRegExists(ok)
    \/ \E ok \in BOOLEAN : WRegHset(ok)
    \/ TickBetweenCycles

SpecQueue == InitQueue /\ [][NextQueue]_vars


----------------------------------------------------------------------------
(* The circuit breakers alone: recordFailure, recordSucces and              *)
(* isCircuitOpen called in any order as time passes.                        *)

\* payments.ts 91-98, as makeRequest calls it after its last failed attempt
BreakerFailure(p) ==
    /\ stats[p].failures < MaxFailures
    /\ stats' = [stats EXCEPT ![p] = recordFailure(@, now)]
    /\ hist' = [hist EXCEPT !.reported[p] = NoReport]
    /\ UNCHANGED << now, healthCache, ledgerVars, queueVars, buildVars, req, clientVars >>

\* payments.ts 100-103, as makeRequest calls it on a 2xx or 4xx response
BreakerSuccess(p) ==
    /\ stats' = [stats EXCEPT ![p] = recordSucces(@)]
    /\ hist' = [hist EXCEPT !.reported[p] = NoReport]
    /\ UNCHANGED << now, healthCache, ledgerVars, queueVars, buildVars, req, clientVars >>

\* payments.ts 77-89, as makeRequest and getHealth call it
BreakerCheck(p) ==
    /\ stats' = [stats EXCEPT ![p] = isCircuitOpenStats(@, now)]
    /\ hist' = [hist EXCEPT !.reported[p] =
                  [at |-> now, wasOpen |-> stats[p].circuitOpen,
                   open |-> isCircuitOpen(stats[p], now)]]
    /\ UNCHANGED << now, healthCache, ledgerVars, queueVars, buildVars, req, clientVars >>

InitBreaker ==
    /\ Init
    /\ ledgerBuild = "summary.ts"
    /\ queueBuild = "queue.ts"

NextBreaker ==
    \/ \E p \in Procs : BreakerFailure(p)
    \/ \E p \in Procs : BreakerSuccess(p)
    \/ \E p \in Procs : BreakerCheck(p)
    \/ Tick(5000, MaxElapsedBreaker)

SpecBreaker == InitBreaker /\ [][NextBreaker]_vars

----------------------------------------------------------------------------
(* The ledger alone: registerPayment calls that pass every argument,        *)
(* interleaved with one another and with GET /payments-summary.             *)

InitLedger ==
    /\ Init
    /\ queueBuild = "queue.ts"

NextLedger ==
    \/ \E c \in Callers, p \in Procs, a \in Amounts, id \in CorrIds :
          registerPayment(c, p, a, id)
    \/ \E c \in Callers, ok \in BOOLEAN : CallExists(c, ok)
    \/ \E c \in Callers, ok \in BOOLEAN : CallHset(c, ok)
    \/ \E c \in Callers, ok \in BOOLEAN : CallZadd(c, ok)
    \/ ScanStart(NoBound, NoBound)
    \/ \E ok \in BOOLEAN : ScanKeys(ok)
    \/ \E k \in CorrIds \cup {Undefined}, ok \in BOOLEAN : ScanHgetall(k, ok)
    \/ \E ok \in BOOLEAN : ScanZcount(ok)
    \/ \E ok \in BOOLEAN : ScanZrangebyscore(ok)
    \/ ScanReply
    \/ Tick(1, MaxElapsedLedger)

SpecLedger == InitLedger /\ [][NextLedger]_vars

----------------------------------------------------------------------------
(* Properties of the synchronous path, checked under SpecPay                *)

\* the Settlement records the ledger holds for a correlationId (summary.ts)
RecordsOf(correlationId) ==
    {k \in DOMAIN redis : redis[k].correlationId = correlationId}

\* the number of settlements the ledger holds for a processor
LedgerCount(p) ==
    IF ledgerBuild = "summary.ts"
    THEN Cardinality({k \in DOMAIN redis : redis[k].processor = p})
    ELSE Cardinality(DOMAIN zset[p])

NoneInFlight == \A r \in Reqs : req[r].pc \in {"idle", "gone"}

\* the correlationIds answered as settled directly, all processors together
DirectIds == hist.direct["default"] \o hist.direct["fallback"]

PairwiseDistinct(ids) ==
    \A i \in DOMAIN ids, j \in DOMAIN ids : i # j => ids[i] # ids[j]

\* C1: with the keyed ledger (summary.ts), once POST /payments has registered a
\* payment and is about to answer it as settled, the ledger holds exactly one
\* Settlement for that payment's correlationId.
C1_OneSettlementPerSettledId ==
    ledgerBuild = "summary.ts" =>
        \A r \in Reqs :
            (req[r].pc = "done" /\ req[r].outcome = "SettledDirect")
                => Cardinality(RecordsOf(req[r].corr)) = 1

\* C2: once every POST /payments has been answered, if the payments settled
\* directly had pairwise distinct correlationIds then the ledger holds, for each
\* processor, as many settlements as payments were settled directly on it.
C2_OneSettlementPerDirectRequest ==
    (NoneInFlight /\ PairwiseDistinct(DirectIds)) =>
        \A p \in Procs : LedgerCount(p) = Len(hist.direct[p])

\* C8: a POST /payments handler that has its answer ended SettledDirect, Queued
\* or Rejected, and in no other way.
C8_ThreeTerminalStates ==
    \A r \in Reqs :
        req[r].pc = "done" => req[r].outcome \in {"SettledDirect", "Queued", "Rejected"}

\* C9: a POST /payments handler that reads both processors unhealthy while the
\* queue holds QUEUE_MAX_SIZE items ends Rejected in that same step, having
\* issued no downstream call, not called queuePayment and registered nothing,
\* and the step changes neither the queue nor the ledger.
C9_OverloadRejectsUntouched ==
    [][\A r \in Reqs :
          (/\ req[r].pc \in {"idle", "health"}
           /\ req'[r].pc \notin {"idle", "health"}
           /\ ~req'[r].p1 /\ ~req'[r].p2
           /\ Len(paymentQueue) >= QUEUE_MAX_SIZE)
          => (/\ req'[r].pc = "done"
              /\ req'[r].outcome = "Rejected"
              /\ req'[r].calls = [default |-> 0, fallback |-> 0]
              /\ ~req'[r].enq
              /\ req'[r].regs = {}
              /\ ~req'[r].wrote
              /\ UNCHANGED << queueVars, ledgerVars >>)]_vars

C9_Witness ==
    \E r \in Reqs :
        /\ req[r].pc = "done" /\ req[r].error = "overloaded"
        /\ ~req[r].p1 /\ ~req[r].p2
        /\ Len(paymentQueue) >= QUEUE_MAX_SIZE

----------------------------------------------------------------------------
(* Properties of the ledger and of the summary, checked under SpecLedger    *)

RECURSIVE SumOfRecords(_)
\* the amounts of the records under a set of keys, added up
SumOfRecords(keys) ==
    IF keys = {} THEN 0
    ELSE LET k == CHOOSE x \in keys : TRUE
         IN  ParseFloat(redis[k].amount) + SumOfRecords(keys \ {k})

\* the sum of the amounts the ledger holds for a processor
LedgerSum(p) ==
    IF ledgerBuild = "summary.ts"
    THEN SumOfRecords({k \in DOMAIN redis : redis[k].processor = p})
    ELSE SumOf(DOMAIN zset[p])

----------------------------------------------------------------------------
(* Properties of the circuit breaker, checked under SpecBreaker             *)

----------------------------------------------------------------------------
(* Properties of the retry queue, checked under SpecQueue                   *)

Range(seq) == {seq[i] : i \in DOMAIN seq}

\* the items that left the queue as permanently failed without one downstream
\* success
FailedForGood ==
    {id \in DOMAIN hist.removed :
        hist.removed[id] = "failed" /\ items[id].settledOn = "none"}

\* the item the worker is processing
InProcess(id) ==
    /\ worker.pc \in {"probe", "call"}
    /\ worker.batch[worker.idx] = id

\* C5: an item that no downstream attempt has settled is never attempted more
\* than maxRetries times; it leaves the queue as permanently failed after
\* exactly maxRetries attempts, and once it has had them it is either gone or in
\* the middle of the last one.
C5_RemovedAfterMaxRetriesAttempts ==
    \A id \in DOMAIN items :
        items[id].settledOn = "none" =>
            /\ items[id].attempts <= items[id].maxRetries
            /\ id \in FailedForGood => items[id].attempts = items[id].maxRetries
            /\ items[id].attempts = items[id].maxRetries
                  => (id \in FailedForGood \/ InProcess(id))

\* C5 as stated: permanently failed after exactly maxRetries + 1 attempts.
C5_RemovedAfterMaxRetriesPlusOne ==
    \A id \in FailedForGood : items[id].attempts = items[id].maxRetries + 1

C5_Witness ==
    \E id \in FailedForGood :
        /\ items[id].attempts = QUEUE_MAX_RETRIES
        /\ id \notin Range(paymentQueue)
        /\ worker.pc = "none"

\* C6: a queuePayment call made while the queue holds QUEUE_MAX_SIZE items
\* throws and changes nothing of the queue: its contents, its counters, the
\* last-activity time, the running flag, the timers and the worker.
C6_FullQueueRejectsUntouched ==
    [][\A c \in CorrIds :
          (Len(paymentQueue) >= QUEUE_MAX_SIZE /\ Enqueue(c, 10000))
              => (hist'.threw /\ UNCHANGED queueVars)]_vars

C6_Witness ==
    /\ hist.threw
    /\ Len(paymentQueue) = QUEUE_MAX_SIZE
    /\ queueStats.queued = QUEUE_MAX_SIZE

\* C7: between drain cycles, every item queuePayment accepted is in the queue
\* unless it left as processed or as permanently failed.
C7_NoAcceptedItemIsDropped ==
    worker.pc = "none" =>
        \A id \in DOMAIN items :
            id \in Range(paymentQueue) \/ id \in DOMAIN hist.removed

----------------------------------------------------------------------------
(* Ledger failures after a downstream success                                *)

\* a makeRequest of the handler came back with success
SettledDownstream(rq) ==
    rq.made["default"] = "success" \/ rq.made["fallback"] = "success"

\* C11: a POST /payments handler whose makeRequest succeeded answers with the
\* downstream status, as settled, whatever the ledger write then does.
C11_LedgerFailureKeepsSuccess ==
    \A r \in Reqs :
        (req[r].pc = "done" /\ SettledDownstream(req[r]))
            => (req[r].outcome = "SettledDirect" /\ req[r].code = req[r].status)

\* C11, queue side (SpecQueue): an item that a processor has settled never
\* leaves the queue counted as permanently failed.
C11_SettledItemNeverFailed ==
    \A id \in DOMAIN hist.removed :
        hist.removed[id] = "failed" => items[id].settledOn = "none"

----------------------------------------------------------------------------
(* The status POST /payments answers with                                    *)

\* C12: a POST /payments handler answers 200 when the payment was settled
\* directly or queued, and any other status only for the overload and the
\* queue-full rejections.
C12_Only200OrQueueFull ==
    \A r \in Reqs :
        req[r].pc = "done" =>
            /\ req[r].outcome \in {"SettledDirect", "Queued"} => req[r].code = 200
            /\ req[r].code # 200 =>
                  (req[r].outcome = "Rejected"
                   /\ req[r].error \in {"overloaded", "queue_full"}
                   /\ Len(paymentQueue) >= QUEUE_MAX_SIZE)

\* C13: when registerPayment returns to a POST /payments handler whose
\* downstream answer was a 4xx, the ledger holds one settlement more for that
\* processor than before the call returned.
C13_ClientErrorSettlementIsCounted ==
    [][\A r \in Reqs :
          (/\ req[r].pc \in {"reg_exists", "reg_hset", "reg_zadd"}
           /\ req[r].status = StatusOf("4xx")
           /\ req'[r].pc = "done"
           /\ req'[r].outcome = "SettledDirect")
          => \E n \in 0..NumReqs :
                /\ LedgerCount(req[r].proc) = n
                /\ LedgerCount(req[r].proc)' = n + 1]_vars


\* C14: one makeRequest issues at most MAX_RETRIES + 1 downstream attempts,
\* calls recordFailure exactly once when it returns failure after attempting,
\* and never calls recordFailure when one of its attempts came back 2xx or 4xx.
C14_RetriesAndOneRecordedFailure ==
    \A r \in Reqs : \A p \in Procs :
        /\ req[r].calls[p] <= MAX_RETRIES + 1
        /\ req[r].made[p] = "failed" => req[r].recFail[p] = 1
        /\ req[r].answered[p] => req[r].recFail[p] = 0

\* C14, the part the code keeps: three attempts at most, one recordFailure
\* after the last failed attempt, none when makeRequest returns success.
C14_FailureRecordedOnceAfterLastAttempt ==
    \A r \in Reqs : \A p \in Procs :
        /\ req[r].calls[p] <= MAX_RETRIES + 1
        /\ req[r].recFail[p] = (IF req[r].made[p] = "failed" THEN 1 ELSE 0)
        /\ req[r].made[p] = "failed" => req[r].calls[p] = MAX_RETRIES + 1
        /\ req[r].made[p] = "success" => req[r].recFail[p] = 0


\* the breaker of processor p is Open and its cooldown has not elapsed
OpenAndCooling(p) ==
    /\ stats[p].circuitOpen
    /\ now - stats[p].lastFailure <= CIRCUIT_BREAKER_TIMEOUT

\* C15: a makeRequest invoked for a processor whose breaker is Open with the
\* cooldown not elapsed issues no downstream call, returns success = false at
\* once, and leaves the processor's failures, lastFailure and circuitOpen as
\* they were.
C15_OpenBreakerSkipsTheCall ==
    [][\A r \in Reqs : \A p \in Procs :
          (/\ req[r].made[p] = "none" /\ req[r].calls[p] = 0
           /\ (req'[r].made[p] # "none" \/ req'[r].calls[p] > 0)
           /\ OpenAndCooling(p))
          => (/\ req'[r].made[p] = "skipped"
              /\ req'[r].calls[p] = 0
              /\ stats'[p] = stats[p])]_vars

\* a makeRequest on the default processor was skipped on an Open breaker
C15_Witness ==
    \E r \in Reqs :
        /\ req[r].made["default"] = "skipped"
        /\ req[r].calls["default"] = 0
        /\ OpenAndCooling("default")
        /\ stats["default"].failures >= CIRCUIT_BREAKER_THRESHOLD


\* C16: whenever getHealth returns to the handler, a processor it reports
\* healthy does not have its breaker Open at that time, whether the pair was
\* probed or served from the cache.
C16_NeverHealthyWhileOpen ==
    [][\A r \in Reqs :
          (req[r].pc \in {"idle", "health"} /\ req'[r].pc \notin {"idle", "health"})
          => (/\ req'[r].p1 => ~OpenAndCooling("default")
              /\ req'[r].p2 => ~OpenAndCooling("fallback"))]_vars


----------------------------------------------------------------------------
(* getHealth as the POST handler calls it, with the clock moving in steps   *)
(* that land on the HEALTH_TTL boundary.                                    *)

MaxElapsedHealth == 7500

InitHealth ==
    /\ InitPay
    /\ ledgerBuild = "summary.ts"
    /\ stats = [p \in Procs |-> FreshStats]

NextHealth ==
    \/ \E r \in Reqs, c \in CorrIds : PostStartAlone(r, c, 10000)
    \/ \E r \in Reqs, raw1 \in BOOLEAN, raw2 \in BOOLEAN : HealthDone(r, raw1, raw2)
    \/ \E r \in Reqs, o \in Outcomes : Attempt(r, o)
    \/ \E r \in Reqs : WaitDone(r)
    \/ \E r \in Reqs, ok \in BOOLEAN : RegExists(r, ok)
    \/ \E r \in Reqs, ok \in BOOLEAN : RegHset(r, ok)
    \/ \E r \in Reqs : Reply(r)
    \/ Tick(2500, MaxElapsedHealth)

SpecHealth == InitHealth /\ [][NextHealth]_vars

\* C17: getHealth returns the cached pair without probing when less than
\* HEALTH_TTL has passed since healthCache.last, and otherwise probes both
\* processors and stores the pair it returns with the time of the call; the
\* first call after startup probes.
C17_CacheServedWithinTtlElseProbed ==
    [][\A r \in Reqs :
          /\ (req[r].pc = "idle" /\ req'[r].pc # "idle") =>
                 IF now - healthCache.last < HEALTH_TTL
                 THEN /\ req'[r].pc # "health"
                      /\ req'[r].hnow = 0
                      /\ req'[r].p1 = healthCache.p1
                      /\ req'[r].p2 = healthCache.p2
                      /\ healthCache' = healthCache
                 ELSE /\ req'[r].pc = "health"
                      /\ req'[r].hnow = now
                      /\ healthCache' = healthCache
          /\ (req[r].pc = "idle" /\ req'[r].pc # "idle" /\ healthCache.last = 0)
                 => req'[r].pc = "health"
          /\ (req[r].pc = "health" /\ req'[r].pc # "health") =>
                 healthCache' = [last |-> req[r].hnow,
                                 p1 |-> req'[r].p1, p2 |-> req'[r].p2]]_vars

\* a handler was served a healthy pair from the cache some time after the
\* probe that stored it
C17_Witness ==
    \E r \in Reqs :
        /\ req[r].pc \notin {"idle", "health", "gone"}
        /\ req[r].hnow = 0
        /\ req[r].p1 /\ healthCache.p1
        /\ healthCache.last >= Epoch
        /\ now - healthCache.last > 0
        /\ now - healthCache.last < HEALTH_TTL


\* processQueue invocations that are pending (a timer is set) or running
ProcessQueueInvocations == Len(timers) + (IF worker.pc # "none" THEN 1 ELSE 0)

\* C18: there is never more than one pending or running processQueue (exactly
\* one while queueProcessorRunning, none otherwise, and no timer ever fires
\* into a running cycle), and an enqueue made while no worker is running
\* starts one, due after QUEUE_PROCESS_INTERVAL.
C18_AtMostOneWorkerLoop ==
    /\ [](/\ ProcessQueueInvocations <= 1
          /\ ProcessQueueInvocations = (IF queueProcessorRunning THEN 1 ELSE 0)
          /\ ~hist.overlap)
    /\ [][(~queueProcessorRunning /\ Len(paymentQueue') > Len(paymentQueue))
            => (/\ queueProcessorRunning'
                /\ timers' = << now + QUEUE_PROCESS_INTERVAL(queueBuild) >>)]_vars

\* a payment was enqueued and forceProcessQueue could be called while a drain
\* cycle was running
C18_Witness ==
    /\ worker.pc # "none"
    /\ queueProcessorRunning
    /\ Len(items) = MaxItems
    /\ Len(paymentQueue) = QUEUE_MAX_SIZE
    /\ timers = << >>


----------------------------------------------------------------------------
(* The retry queue over a long stretch of time: the clock moves in steps    *)
(* that land on QUEUE_IDLE_THRESHOLD and pass it, so the worker's idle stop *)
(* and its restart happen.                                                  *)

MaxElapsedIdle == 45000

\* the clock moves between drain cycles
TickIdle ==
    /\ worker.pc = "none"
    /\ Tick(15000, MaxElapsedIdle)

NextIdle ==
    \/ \E c \in CorrIds : Enqueue(c, 10000)
    \/ forceProcessQueue
    \/ \E i \in 1..2 : TimerFire(i)
    \/ ImportDone
    \/ \E raw1 \in BOOLEAN, raw2 \in BOOLEAN : ProbeDone(raw1, raw2)
    \/ \E o \in Outcomes : CallDone(o)
    \/ \E ok \in BOOLEAN : WRegExists(ok)
    \/ \E ok \in BOOLEAN : WRegHset(ok)
    \/ TickIdle

SpecIdle == InitQueue /\ [][NextIdle]_vars

\* C19: the worker stops only in a step that finds the queue empty with more
\* than QUEUE_IDLE_THRESHOLD passed since lastQueueActivity; an enqueue made
\* while it is stopped starts it again; so whenever the queue is non-empty
\* the worker is running, with its next processQueue pending or in progress.
C19_StopsOnlyIdleAndRestarts ==
    /\ [][(queueProcessorRunning /\ ~queueProcessorRunning')
            => (/\ Len(paymentQueue) = 0
                /\ now - lastQueueActivity > QUEUE_IDLE_THRESHOLD)]_vars
    /\ [][(~queueProcessorRunning /\ Len(paymentQueue') > Len(paymentQueue))
            => (queueProcessorRunning' /\ Len(timers') = 1)]_vars
    /\ [](Len(paymentQueue) > 0
            => (queueProcessorRunning /\ ProcessQueueInvocations = 1))

\* the worker stopped after an idle period and an enqueue started it again
C19_Witness ==
    /\ hist.stopped
    /\ now - Epoch > QUEUE_IDLE_THRESHOLD
    /\ Len(paymentQueue) > 0
    /\ queueProcessorRunning
    /\ timers = << now + QUEUE_PROCESS_INTERVAL(queueBuild) >>
    /\ lastQueueActivity = now


\* C20: an item leaves the queue as processed only when the ledger holds a
\* Settlement under its correlationId, and queueStats.processed never counts
\* an item that is still without one.
C20_ProcessedOnlyAfterLedgerWrite ==
    /\ \A id \in DOMAIN hist.removed :
           hist.removed[id] = "processed" => Exists(redis, items[id].correlationId)
    /\ queueStats.processed <=
           Cardinality({id \in DOMAIN items : Exists(redis, items[id].correlationId)})


\* the item the worker is handling
CurrentItem == items[worker.batch[worker.idx]]

\* C21: an item whose downstream attempt succeeded and whose ledger write
\* failed is kept unregistered, and the worker never again probes or issues a
\* downstream settlement call for it: later cycles only retry the registration.
C21_SettledItemIsNotSettledAgain ==
    worker.pc \in {"probe", "call"} => CurrentItem.settledOn = "none"


\* C22: a queued payment that no processor ever settles is, between drain
\* cycles, still in the queue or gone as permanently failed, and the failed
\* counter has grown by exactly one for each such removal: the payment leaves
\* the queue in no other way.
C22_UnsettledItemLeavesOnlyAsFailed ==
    worker.pc = "none" =>
        /\ \A id \in DOMAIN items :
               items[id].settledOn = "none" =>
                  \/ id \in Range(paymentQueue)
                  \/ (id \in DOMAIN hist.removed /\ hist.removed[id] = "failed")
        /\ queueStats.failed >= Cardinality(FailedForGood)


\* C23: every item in the queue has 0 <= attempts <= maxRetries, items kept
\* after a failed ledger write included.
C23_AttemptsWithinMaxRetries ==
    \A id \in Range(paymentQueue) :
        /\ 0 <= items[id].attempts
        /\ items[id].attempts <= items[id].maxRetries


\* C24: for each processor, circuitOpen is true only if failures is at least
\* CIRCUIT_BREAKER_THRESHOLD and failures is never negative; and a step that
\* changes one processor's breaker state leaves the other processor's alone.
C24_BreakerInvariantPerProcessor ==
    /\ [](\A p \in Procs :
             /\ stats[p].circuitOpen => stats[p].failures >= CIRCUIT_BREAKER_THRESHOLD
             /\ stats[p].failures >= 0)
    /\ [][\A p \in Procs :
             stats'[p] # stats[p] => \A q \in Procs \ {p} : stats'[q] = stats[q]]_vars

\* default is open; a failure was recorded for fallback after that and
\* fallback is still closed
C24_Witness ==
    /\ stats["default"].circuitOpen
    /\ stats["default"].failures >= CIRCUIT_BREAKER_THRESHOLD
    /\ ~stats["fallback"].circuitOpen
    /\ stats["fallback"].failures > 0
    /\ stats["fallback"].lastFailure > stats["default"].lastFailure


\* C25: a Settlement, once written, is never changed and never deleted: every
\* record of the ledger is still there, with the same processor, amount and
\* timestamp, after every step.
C25_SettlementsAreImmutable ==
    [][/\ \A k \in DOMAIN redis :
             k \in DOMAIN redis' /\ redis'[k] = redis[k]
       /\ \A p \in Procs : \A m \in DOMAIN zset[p] :
             m \in DOMAIN zset'[p] /\ zset'[p][m] = zset[p][m]]_vars


----------------------------------------------------------------------------
(* The ledger queried with bounds: registrations land before, on and after  *)
(* the bounds of GET /payments-summary?from=..&to=..                        *)

MaxElapsedRange == 2

\* the values of from / to: omitted, or the instant one millisecond after the start
QueryBounds == {NoBound, Epoch + 1}

\* a registration that starts while no other is in flight
registerPaymentAlone(c, processor, amount, correlationId) ==
    /\ \A b \in Callers : callers[b].pc = "idle"
    /\ registerPayment(c, processor, amount, correlationId)

NextRange ==
    \/ \E c \in Callers, p \in Procs, a \in Amounts, id \in CorrIds :
          registerPaymentAlone(c, p, a, id)
    \/ \E c \in Callers, ok \in BOOLEAN : CallExists(c, ok)
    \/ \E c \in Callers, ok \in BOOLEAN : CallHset(c, ok)
    \/ \E c \in Callers, ok \in BOOLEAN : CallZadd(c, ok)
    \/ \E from \in QueryBounds, to \in QueryBounds : ScanStart(from, to)
    \/ \E ok \in BOOLEAN : ScanKeys(ok)
    \/ \E k \in CorrIds \cup {Undefined}, ok \in BOOLEAN : ScanHgetall(k, ok)
    \/ \E ok \in BOOLEAN : ScanZcount(ok)
    \/ \E ok \in BOOLEAN : ScanZrangebyscore(ok)
    \/ ScanReply
    \/ Tick(1, MaxElapsedRange)

SpecRange == InitLedger /\ [][NextRange]_vars

\* from <= t <= to, an omitted bound being open
InRange(t, from, to) ==
    /\ (from = NoBound \/ from <= t)
    /\ (to = NoBound \/ t <= to)

\* the settlements the ledger holds for processor p with a timestamp in range
LedgerCountIn(p, from, to) ==
    IF ledgerBuild = "summary.ts"
    THEN Cardinality({k \in DOMAIN redis :
                         /\ redis[k].processor = p
                         /\ InRange(ParseInt(redis[k].timestamp), from, to)})
    ELSE Cardinality({m \in DOMAIN zset[p] : InRange(zset[p][m], from, to)})

\* the settlements the ledger holds with a timestamp in range, whatever the processor
LedgerTotalIn(from, to) ==
    IF ledgerBuild = "summary.ts"
    THEN Cardinality({k \in DOMAIN redis :
                         InRange(ParseInt(redis[k].timestamp), from, to)})
    ELSE LedgerCountIn("default", from, to) + LedgerCountIn("fallback", from, to)

\* C26: a summary bounded by from and to, computed while no write landed,
\* counts for each processor exactly the stored settlements of that processor
\* whose timestamp t has from <= t <= to, an omitted bound being open, and the
\* two counts together are the number of stored settlements in range.
C26_SummaryCountsTheClosedRange ==
    (scan.pc = "done" /\ ~scan.raced) =>
        /\ \A p \in Procs :
               scan.result[p].totalRequests = LedgerCountIn(p, scan.from, scan.to)
        /\ scan.result["default"].totalRequests + scan.result["fallback"].totalRequests
              = LedgerTotalIn(scan.from, scan.to)

\* a query whose two bounds are the timestamp of one settlement counts it and
\* leaves out the other settlement of the same processor
C26_Witness ==
    /\ scan.pc = "done" /\ ~scan.raced
    /\ scan.from = Epoch + 1 /\ scan.to = Epoch + 1
    /\ LedgerCount("default") = 2
    /\ LedgerCountIn("default", Epoch + 1, Epoch + 1) = 1
    /\ scan.result["default"].totalRequests = 1


\* the entries the ledger holds for processor p: keys of records (summary.ts)
\* or members of the sorted set (part_007)
StoredOf(p) ==
    IF ledgerBuild = "summary.ts"
    THEN {k \in DOMAIN redis : redis[k].processor = p}
    ELSE DOMAIN zset[p]

\* the amounts of a set of entries, added up
AmountOf(entries) ==
    IF ledgerBuild = "summary.ts" THEN SumOfRecords(entries) ELSE SumOf(entries)

\* C27: also when registrations are written while the summary is computed,
\* each processor's totalRequests and totalAmount of a result describe, at the
\* moment the scan finishes, one and the same set of the settlements stored
\* for that processor: the count is the size of the set and the amount is its
\* rounded sum.
C27_CountAndAmountDescribeTheSameRecords ==
    [][(scan.pc # "done" /\ scan'.pc = "done") =>
          \A p \in Procs :
              \E S \in SUBSET StoredOf(p) :
                  /\ scan'.result[p].totalRequests = Cardinality(S)
                  /\ scan'.result[p].totalAmount = ToFixed2(AmountOf(S))]_vars


\* makeRequest was invoked for processor p by this handler
Invoked(rq, p) == rq.made[p] # "none" \/ rq.calls[p] > 0

ClaimedOrder(p1, p2) ==
    IF p1 = p2 THEN << "default", "fallback" >>
    ELSE IF p1 THEN << "default" >>
    ELSE << "fallback" >>

\* C29: for each due item the worker's trial order is [default, fallback]
\* when the fresh probe reports both healthy or both unhealthy, [default] or
\* [fallback] when it reports only that one healthy; the processors are tried
\* in that order, the next one only after the one before failed, none after a
\* success, and default is never tried after fallback.
C29_TrialOrderDefaultFirst ==
    /\ [][\A p1 \in BOOLEAN, p2 \in BOOLEAN :
             ProbeDone(p1, p2) =>
                (worker'.tryList = ClaimedOrder(p1, p2) /\ worker'.tryIdx = 1)]_vars
    /\ [][\A o \in Outcomes :
             CallDone(o) =>
                IF QueueSuccess(o)
                THEN ~(worker'.pc = "call" /\ worker'.idx = worker.idx
                       /\ worker'.batch = worker.batch)
                ELSE IF worker.tryIdx < Len(worker.tryList)
                     THEN /\ worker'.pc = "call"
                          /\ worker'.tryIdx = worker.tryIdx + 1
                          /\ worker'.tryList = worker.tryList
                     ELSE worker'.pc # "call"]_vars
    /\ [](worker.pc = "call" =>
             /\ worker.tryIdx \in 1..Len(worker.tryList)
             /\ worker.tryList[worker.tryIdx] = "default" => worker.tryIdx = 1)

\* default was tried first and failed; fallback is being tried
C29_Witness ==
    /\ worker.pc = "call"
    /\ worker.tryList = << "default", "fallback" >>
    /\ worker.tryIdx = 2
    /\ CurrentItem.settledOn = "none"


\* the item's delay has passed since its last attempt
Due(id) == now - items[id].lastAttempt >= items[id].delay

\* the worker is in the middle of processing the item
Held(id) ==
    /\ worker.pc \notin {"none", "import"}
    /\ worker.batch[worker.idx] = id

\* the delay after one more failed attempt
BackedOff(delay) ==
    Min((delay * QUEUE_BACKOFF_NUM(queueBuild)) \div QUEUE_BACKOFF_DEN(queueBuild),
        QUEUE_MAX_DELAY(queueBuild))

\* C30: an item that is not due is left as it is by the worker (no attempt
\* counted, no probe, no call, and a cycle that finds only such items changes
\* no counter); only a due item is attempted; a failed attempt that is not
\* the last one sets delay to min(delay * BACKOFF_MULTIPLIER, MAX_DELAY) and
\* adds one to retries; and a delay never decreases nor exceeds MAX_DELAY.
C30_SkipIsInertAndBackoffIsCapped ==
    /\ [][\A id \in DOMAIN items :
             /\ (~Due(id) /\ ~Held(id)) => items'[id] = items[id]
             /\ items'[id].attempts # items[id].attempts =>
                    /\ Due(id)
                    /\ items'[id].attempts = items[id].attempts + 1
                    /\ items'[id].lastAttempt = now
             /\ items'[id].delay # items[id].delay =>
                    /\ items'[id].delay = BackedOff(items[id].delay)
                    /\ queueStats'.retries = queueStats.retries + 1
                    /\ items[id].attempts < items[id].maxRetries
             /\ items'[id].delay >= items[id].delay]_vars
    /\ [][ImportDone =>
             /\ queueStats' = queueStats
             /\ worker'.pc = "probe" => Due(worker'.batch[worker'.idx])
             /\ worker'.pc = "none" =>
                    (items' = items /\ \A id \in Range(worker'.batch) : ~Due(id))]_vars
    /\ [][\A o \in Outcomes :
             (/\ CallDone(o)
              /\ ~QueueSuccess(o)
              /\ worker.tryIdx = Len(worker.tryList)
              /\ CurrentItem.attempts < CurrentItem.maxRetries)
             => LET id == worker.batch[worker.idx]
                IN  /\ items'[id].delay = BackedOff(items[id].delay)
                    /\ queueStats'.retries = queueStats.retries + 1
                    /\ queueStats'.failed = queueStats.failed
                    /\ queueStats'.processed = queueStats.processed]_vars
    /\ [](\A id \in DOMAIN items :
             /\ items[id].delay >= QUEUE_INITIAL_DELAY(queueBuild)
             /\ items[id].delay <= QUEUE_MAX_DELAY(queueBuild))

\* an item whose first attempt failed was found not due by the next cycle and
\* left alone: its delay has doubled and the cycle after is scheduled
C30_Witness ==
    /\ worker.pc = "none"
    /\ \E id \in Range(paymentQueue) :
          /\ items[id].attempts = 1
          /\ items[id].delay = BackedOff(QUEUE_INITIAL_DELAY(queueBuild))
          /\ items[id].delay > QUEUE_INITIAL_DELAY(queueBuild)
          /\ now - items[id].lastAttempt = QUEUE_PROCESS_INTERVAL(queueBuild)
          /\ ~Due(id)
    /\ queueStats.retries = 1
    /\ timers = << now + QUEUE_PROCESS_INTERVAL(queueBuild) >>


----------------------------------------------------------------------------
(* Order of the retry queue, checked under SpecQueue                        *)

\* where x stands in a sequence that holds it once
PositionIn(seq, x) == CHOOSE i \in DOMAIN seq : seq[i] = x

\* the batch of the drain cycle in progress: sliced off when the import resolves
CycleBatch ==
    IF worker.pc = "import"
    THEN SubSeq(paymentQueue, 1, Min(QUEUE_BATCH_SIZE(queueBuild), Len(paymentQueue)))
    ELSE worker.batch

\* this step ends a drain cycle: paymentQueue = remainingPayments has run
CycleEnds == worker.pc # "none" /\ worker'.pc = "none"

\* C31: when a drain cycle ends, the items of its batch that were returned to
\* the queue stand ahead of every item that was not in the batch, and among
\* themselves in the order they had in the batch.
C31_ReturnedItemsKeepBatchOrder ==
    [][CycleEnds =>
         \A i \in DOMAIN paymentQueue', j \in DOMAIN paymentQueue' :
            LET a == paymentQueue'[i]
                b == paymentQueue'[j]
            IN  /\ (a \in Range(CycleBatch) /\ b \notin Range(CycleBatch)) => i < j
                /\ (/\ a \in Range(CycleBatch)
                    /\ b \in Range(CycleBatch)
                    /\ PositionIn(CycleBatch, a) < PositionIn(CycleBatch, b)) => i < j]_vars


\* The retry queue with one more accepted item than the queue can hold at a
\* time, over the first two drain cycles: queuePayment called before, during
\* and after a cycle.
MaxItemsOrder == 3
MaxElapsedOrder == 6000

\* queuePayment called directly, up to MaxItemsOrder accepted items
EnqueueInOrder(correlationId, amount) ==
    /\ QueueIsFull \/ Len(items) < MaxItemsOrder
    /\ queuePayment(correlationId, amount)
    /\ hist' = [hist EXCEPT !.threw = QueueIsFull]
    /\ UNCHANGED << now, stats, healthCache, ledgerVars, buildVars, req, clientVars >>

TickOrder ==
    /\ worker.pc = "none"
    /\ \A i \in DOMAIN timers : timers[i] > now
    /\ Tick(3000, MaxElapsedOrder)

NextOrder ==
    \/ EnqueueInOrder("a", 10000)
    \/ \E i \in 1..2 : TimerFire(i)
    \/ ImportDone
    \/ \E raw1 \in BOOLEAN, raw2 \in BOOLEAN : ProbeDone(raw1, raw2)
    \/ \E o \in Outcomes : CallDone(o)
    \/ \E ok \in BOOLEAN : WRegExists(ok)
    \/ \E ok \in BOOLEAN : WRegHset(ok)
    \/ TickOrder

SpecOrder == InitQueue /\ [][NextOrder]_vars

\* the worker has made its first attempt on the item (processQueuedPayment 126)
Attempted(id) == items[id].attempts > 0

\* C32: of two accepted items the one enqueued first is the first to be
\* attempted: no item has had its first attempt while an item enqueued before
\* it has had none.  (An item's id is its place in the order of acceptance and
\* one step attempts one item.)
C32_FirstAttemptsInInsertionOrder ==
    \A a \in DOMAIN items, b \in DOMAIN items :
        (a < b /\ Attempted(b)) => Attempted(a)


----------------------------------------------------------------------------
(* The retry queue beside breakers the synchronous path has already moved:  *)
(* default is Open, fallback is one failure from opening.                   *)

OpenStats == [failures |-> CIRCUIT_BREAKER_THRESHOLD,
              lastFailure |-> Epoch, circuitOpen |-> TRUE]

InitShared ==
    /\ now = Epoch
    /\ stats = [p \in Procs |-> IF p = "default" THEN OpenStats ELSE NearOpenStats]
    /\ healthCache = [last |-> 0, p1 |-> FALSE, p2 |-> FALSE]
    /\ ledgerBuild = "summary.ts"
    /\ redis = << >>
    /\ zset = [p \in Procs |-> << >>]
    /\ queueBuild \in {"queue.ts", "stress.mjs"}
    /\ items = << >>
    /\ paymentQueue = << >>
    /\ queueProcessorRunning = FALSE
    /\ lastQueueActivity = Epoch
    /\ queueStats = [queued |-> 0, processed |-> 0, failed |-> 0, retries |-> 0]
    /\ timers = << >>
    /\ worker = NoWorker
    /\ req = [r \in Reqs |-> IdleReq]
    /\ scan = NoScan
    /\ callers = [c \in Callers |-> NoCall]
    /\ hist = NoHist

NextShared ==
    \/ \E c \in CorrIds : Enqueue(c, 10000)
    \/ \E i \in 1..2 : TimerFire(i)
    \/ ImportDone
    \/ \E raw1 \in BOOLEAN, raw2 \in BOOLEAN : ProbeDone(raw1, raw2)
    \/ \E o \in Outcomes : CallDone(o)
    \/ \E ok \in BOOLEAN : WRegExists(ok)
    \/ \E ok \in BOOLEAN : WRegHset(ok)
    \/ TickOrder

SpecShared == InitShared /\ [][NextShared]_vars

\* the processor the worker's makeQueueRequest in flight is addressed to
CalledProcessor == worker.tryList[worker.tryIdx]

\* C33: the worker issues no settlement call to a processor whose breaker is
\* Open, and each worker attempt that comes back updates that processor's
\* breaker as the synchronous path does: recordSucces on a success,
\* recordFailure on a failure.
C33_WorkerSharesTheBreaker ==
    /\ [](worker.pc = "call" => ~isCircuitOpen(stats[CalledProcessor], now))
    /\ [][\A o \in Outcomes :
             CallDone(o) =>
                stats'[CalledProcessor] =
                    IF QueueSuccess(o)
                    THEN recordSucces(stats[CalledProcessor])
                    ELSE recordFailure(stats[CalledProcessor], now)]_vars


----------------------------------------------------------------------------
(* POST /payments handlers in flight together: each handler runs from one   *)
(* await to the next without interruption, and the handlers interleave at   *)
(* their awaits.  Both breakers start two failures short of opening.        *)

MaxElapsedRace == 3000

TwoShortStats == [failures |-> CIRCUIT_BREAKER_THRESHOLD - 2,
                  lastFailure |-> Epoch, circuitOpen |-> FALSE]

\* getHealth probed at Epoch and found only default healthy: the handlers of
\* these runs are served from the cache and all address default
InitRace ==
    /\ now = Epoch
    /\ stats = [p \in Procs |-> TwoShortStats]
    /\ healthCache = [last |-> Epoch, p1 |-> TRUE, p2 |-> FALSE]
    /\ ledgerBuild = "summary.ts"
    /\ redis = << >>
    /\ zset = [p \in Procs |-> << >>]
    /\ queueBuild = "queue.ts"
    /\ items = << >>
    /\ paymentQueue = << >>
    /\ queueProcessorRunning = FALSE
    /\ lastQueueActivity = Epoch
    /\ queueStats = [queued |-> 0, processed |-> 0, failed |-> 0, retries |-> 0]
    /\ timers = << >>
    /\ worker = NoWorker
    /\ req = [r \in Reqs |-> IdleReq]
    /\ scan = NoScan
    /\ callers = [c \in Callers |-> NoCall]
    /\ hist = NoHist

NextRace ==
    \/ \E r \in Reqs : PostStart(r, "a", 10000)
    \/ \E r \in Reqs, o \in Outcomes : Attempt(r, o)
    \/ \E r \in Reqs : WaitDone(r)
    \/ \E r \in Reqs : RegExists(r, TRUE)
    \/ \E r \in Reqs : RegHset(r, TRUE)
    \/ \E r \in Reqs : Reply(r)
    \/ Tick(1000, MaxElapsedRace)

SpecRace == InitRace /\ [][NextRace]_vars

\* this step is handler r's recordFailure call on processor p
Exhausts(r, p) == req'[r].recFail[p] = req[r].recFail[p] + 1

\* C34: with makeRequest calls for one processor in flight together, every
\* call that exhausts its attempts adds exactly one to the failure count as it
\* stands at that moment (one after the reset, when the last answer was a body
\* that could not be read), stamps lastFailure and opens the breaker once the
\* count is at the threshold; the count rises in no other step; a count at the
\* threshold is never seen with the breaker closed; and when every handler has
\* exhausted its attempts on a processor with no answer from it in between,
\* the count has grown by the number of handlers and the breaker is Open.
C34_NoBreakerUpdateIsLost ==
    /\ [][\A r \in Reqs, o \in Outcomes :
             (Attempt(r, o) /\ Exhausts(r, req[r].proc)) =>
                LET p    == req[r].proc
                    from == IF o = "unreadable" THEN recordSucces(stats[p]) ELSE stats[p]
                IN  /\ stats'[p].failures = from.failures + 1
                    /\ stats'[p].lastFailure = now
                    /\ stats'[p].circuitOpen =
                          (from.circuitOpen
                           \/ stats'[p].failures >= CIRCUIT_BREAKER_THRESHOLD)]_vars
    /\ [][\A p \in Procs :
             stats'[p].failures > stats[p].failures =>
                /\ stats'[p].failures = stats[p].failures + 1
                /\ \E r \in Reqs : Exhausts(r, p)]_vars
    /\ [](\A p \in Procs :
             stats[p].failures >= CIRCUIT_BREAKER_THRESHOLD => stats[p].circuitOpen)
    /\ [](\A p \in Procs :
             (\A r \in Reqs : req[r].recFail[p] = 1 /\ ~req[r].answered[p]) =>
                /\ stats[p].failures = TwoShortStats.failures + NumReqs
                /\ stats[p].circuitOpen)

\* both handlers went through makeRequest's two backoff waits on default over
\* the same three seconds and each has just recorded its failure: the count
\* stands at the threshold and the breaker is Open
C34_Witness ==
    /\ now = Epoch + MaxElapsedRace
    /\ \A r \in Reqs :
          /\ req[r].recFail["default"] = 1
          /\ ~req[r].answered["default"]
          /\ req[r].calls["default"] = MAX_RETRIES + 1
          /\ req[r].wakeAt = now
    /\ stats["default"].failures = CIRCUIT_BREAKER_THRESHOLD
    /\ stats["default"].lastFailure = now
    /\ stats["default"].circuitOpen


\* this step sends handler r's next fetch of the same makeRequest call
RetryIssued(r) ==
    /\ req'[r].pc = "try"
    /\ req'[r].proc = req[r].proc
    /\ req'[r].attempt = req[r].attempt + 1

\* C35: inside one makeRequest call every retry is sent by the backoff timer
\* once its time has come, whatever made the attempt before it fail, and the
\* wait grows with the attempt: 1000 ms before the first retry, 2000 ms before
\* the second.
C35_EveryRetryFollowsABackoffWait ==
    /\ [][\A r \in Reqs :
             RetryIssued(r) => (req[r].pc = "wait" /\ now >= req[r].wakeAt)]_vars
    /\ [][\A r \in Reqs :
             (req[r].pc = "try" /\ req'[r].pc = "wait") =>
                req'[r].wakeAt - now = 1000 * (req[r].attempt + 1)]_vars


\* the accepted items for which the ledger holds a Settlement
ItemsWithSettlement ==
    {id \in DOMAIN items : Exists(redis, items[id].correlationId)}

\* every accepted item came with a correlationId of its own
OneItemPerCorrelationId ==
    PairwiseDistinct([id \in DOMAIN items |-> items[id].correlationId])

\* C36: whenever no drain cycle is in progress, queued = processed + failed +
\* the length of the queue, and processed is the number of accepted items with
\* a Settlement in the ledger (items told apart by their correlationId); and
\* no counter ever decreases.
C36_LifetimeCountersBalance ==
    /\ [](worker.pc = "none" =>
             /\ queueStats.queued =
                   queueStats.processed + queueStats.failed + Len(paymentQueue)
             /\ OneItemPerCorrelationId =>
                   queueStats.processed = Cardinality(ItemsWithSettlement))
    /\ [][/\ queueStats'.queued >= queueStats.queued
          /\ queueStats'.processed >= queueStats.processed
          /\ queueStats'.failed >= queueStats.failed
          /\ queueStats'.retries >= queueStats.retries]_vars

====
